---- MODULE Spec2Model ----
(***************************************************************************)
(* bookmarkd: the SSRF guard and resource fetcher of internal/core, the    *)
(* bookmark store with its event bus of internal/core/db, and the archive  *)
(* orchestrator ArchiveAndPersist.                                         *)
(*                                                                         *)
(* Go strings are TLA+ strings; positions are 0-based as in Go, and the    *)
(* helpers below are the functions of package strings the code calls.      *)
(***************************************************************************)
EXTENDS Integers, Sequences, FiniteSets, TLC

(***************************************************************************)
(* package strings                                                         *)
(***************************************************************************)
\* the element of a singleton set: { e(x) : x \in {v} } computes v once
Only(S) == CHOOSE x \in S : TRUE

\* s[i], 0-based, as a one-character string
At(s, i) == SubSeq(s, i + 1, i + 1)

\* s[i:j]
Slice(s, i, j) == SubSeq(s, i + 1, j)

\* s[i:]
From(s, i) == SubSeq(s, i + 1, Len(s))

HasPrefix(s, p) == Len(s) >= Len(p) /\ SubSeq(s, 1, Len(p)) = p

HasSuffix(s, p) == Len(s) >= Len(p) /\ SubSeq(s, Len(s) - Len(p) + 1, Len(s)) = p

\* strings.Index: the first position of sub in s at or after i, -1 when
\* there is none
RECURSIVE IndexFrom(_, _, _)
IndexFrom(s, sub, i) ==
    IF i + Len(sub) > Len(s) THEN -1
    ELSE IF SubSeq(s, i + 1, i + Len(sub)) = sub THEN i
    ELSE IndexFrom(s, sub, i + 1)

Index(s, sub) == IndexFrom(s, sub, 0)

\* strings.LastIndex: the last position of sub in s at or before i
RECURSIVE LastIndexFrom(_, _, _)
LastIndexFrom(s, sub, i) ==
    IF i < 0 THEN -1
    ELSE IF SubSeq(s, i + 1, i + Len(sub)) = sub THEN i
    ELSE LastIndexFrom(s, sub, i - 1)

LastIndex(s, sub) == LastIndexFrom(s, sub, Len(s) - Len(sub))

Contains(s, sub) == \E i \in 0..(Len(s) - Len(sub)) : SubSeq(s, i + 1, i + Len(sub)) = sub

LowerChars == "abcdefghijklmnopqrstuvwxyz"
UpperChars == "ABCDEFGHIJKLMNOPQRSTUVWXYZ"
DigitChars == "0123456789"
HexChars == "0123456789abcdef"

\* the characters of a string, as a set
CharsOf(s) == {SubSeq(s, i, i) : i \in 1..Len(s)}
Letters == CharsOf(LowerChars) \cup CharsOf(UpperChars)
Digits == CharsOf(DigitChars)
HexDigits == CharsOf(HexChars) \cup CharsOf("ABCDEF")
LowerOfUpper == [c \in CharsOf(UpperChars) |-> At(LowerChars, Index(UpperChars, c))]

LowerOf(c) == IF c \in DOMAIN LowerOfUpper THEN LowerOfUpper[c] ELSE c

RECURSIVE ToLower(_)
ToLower(s) == IF s = "" THEN "" ELSE LowerOf(At(s, 0)) \o ToLower(From(s, 1))

\* the pieces of s between occurrences of the one-character separator sep
RECURSIVE Split(_, _)
Split(s, sep) ==
    LET i == Index(s, sep)
    IN  IF i < 0 THEN <<s>> ELSE <<Slice(s, 0, i)>> \o Split(From(s, i + 1), sep)

\* every character of s is one of chars
AllIn(s, chars) == \A i \in 1..Len(s) : SubSeq(s, i, i) \in chars

\* strconv: the value of a string of decimal digits
RECURSIVE Atoi(_)
Atoi(s) == IF s = "" THEN 0 ELSE 10 * Atoi(Slice(s, 0, Len(s) - 1)) + Index(DigitChars, At(s, Len(s) - 1))

RECURSIVE HexVal(_)
HexVal(s) == IF s = "" THEN 0 ELSE 16 * HexVal(Slice(s, 0, Len(s) - 1)) + Index(HexChars, LowerOf(At(s, Len(s) - 1)))

\* strconv.Itoa for n >= 0
RECURSIVE Itoa(_)
Itoa(n) == IF n < 10 THEN At(DigitChars, n) ELSE Itoa(n \div 10) \o At(DigitChars, n % 10)

(***************************************************************************)
(* package net/url: Parse and Hostname                                     *)
(***************************************************************************)
\* getScheme: the scheme before the first ':' when every byte before it may
\* stand in a scheme; err when the URL starts with ':'
RECURSIVE getSchemeAt(_, _)
getSchemeAt(rawURL, i) ==
    IF i >= Len(rawURL) THEN [scheme |-> "", rest |-> rawURL, err |-> FALSE]
    ELSE LET c == At(rawURL, i)
         IN  IF c \in Letters THEN getSchemeAt(rawURL, i + 1)
             ELSE IF c \in Digits \/ c = "+" \/ c = "-" \/ c = "."
                  THEN IF i = 0 THEN [scheme |-> "", rest |-> rawURL, err |-> FALSE]
                       ELSE getSchemeAt(rawURL, i + 1)
             ELSE IF c = ":"
                  THEN IF i = 0 THEN [scheme |-> "", rest |-> "", err |-> TRUE]
                       ELSE [scheme |-> Slice(rawURL, 0, i), rest |-> From(rawURL, i + 1), err |-> FALSE]
             ELSE [scheme |-> "", rest |-> rawURL, err |-> FALSE]


\* validOptionalPort: "" or ":" followed by digits only
validOptionalPort(port) ==
    \/ port = ""
    \/ /\ At(port, 0) = ":"
       /\ AllIn(From(port, 1), Digits)

\* the bytes unescape(host, encodeHost) accepts unescaped
HostCharSet == CharsOf("-_.~!$&'()*+,;=:[]<>") \cup {"\""}

\* unescape: every '%' is followed by two hexadecimal digits
RECURSIVE validEscapes(_)
validEscapes(s) ==
    LET i == Index(s, "%")
    IN  IF i < 0 THEN TRUE
        ELSE /\ i + 2 < Len(s)
             /\ At(s, i + 1) \in HexDigits
             /\ At(s, i + 2) \in HexDigits
             /\ validEscapes(From(s, i + 3))

HostBytes == Letters \cup Digits \cup HostCharSet

\* parseHost for a bracketed literal: i the index of its last ']', zone the
\* index of "%25" before it; of the escapes a zone may hold only its first
\* is unescaped here
parseBracketed(host, i, zone) ==
    IF i < 0 \/ ~validOptionalPort(From(host, i + 1)) THEN [host |-> "", err |-> TRUE]
    ELSE IF zone >= 0
         THEN [host |-> Slice(host, 0, zone) \o "%" \o Slice(host, zone + 3, i) \o From(host, i),
               err |-> ~(/\ AllIn(Slice(host, 0, zone), HostBytes)
                         /\ validEscapes(Slice(host, zone, i))
                         /\ AllIn(Slice(host, zone, i), HostBytes \cup {"%"})
                         /\ AllIn(From(host, i), HostBytes))]
    ELSE [host |-> host, err |-> ~AllIn(host, HostBytes)]

\* parseHost: err for a bracketed literal without ']', a port that is not a
\* number, or a byte that may not stand in a host
parseHost(host) ==
    IF HasPrefix(host, "[")
    THEN parseBracketed(host, LastIndex(host, "]"), Index(Slice(host, 0, LastIndex(host, "]")), "%25"))
    ELSE [host |-> host,
          err |-> ~(/\ LastIndex(host, ":") = -1 \/ validOptionalPort(From(host, LastIndex(host, ":")))
                    /\ AllIn(host, HostBytes))]

\* parseAuthority: the host is what follows the last '@'
parseAuthority(authority) ==
    LET i == LastIndex(authority, "@")
    IN  IF i < 0 THEN parseHost(authority) ELSE parseHost(From(authority, i + 1))

\* strings.Cut(s, sep) -> before, after
CutBefore(s, sep) == IF Index(s, sep) < 0 THEN s ELSE Slice(s, 0, Index(s, sep))
CutAfter(s, sep) == IF Index(s, sep) < 0 THEN "" ELSE From(s, Index(s, sep) + Len(sep))

URLError == [err |-> TRUE, Scheme |-> "", Opaque |-> "", Host |-> "", Path |-> "", RawQuery |-> "", Fragment |-> ""]

urlOK(scheme, host, path, query, frag) ==
    [err |-> FALSE, Scheme |-> scheme, Opaque |-> "", Host |-> host,
     Path |-> path, RawQuery |-> query, Fragment |-> frag]

\* parse, from the authority h on: h is what parseAuthority made of it
parseWithHost(scheme, h, path, query, frag) ==
    IF h.err THEN URLError ELSE urlOK(scheme, h.host, path, query, frag)

\* parse, below the scheme and the query: opaque, or authority and path, or
\* path alone; a is rest behind its "//"
parseRest(scheme, rest, a, query, frag) ==
    IF ~validEscapes(rest) THEN URLError
    ELSE IF ~HasPrefix(rest, "/") /\ scheme # ""
         THEN [urlOK(scheme, "", "", query, frag) EXCEPT !.Opaque = rest]
    ELSE IF ~HasPrefix(rest, "/") /\ Contains(CutBefore(rest, "/"), ":")
         THEN URLError
    ELSE IF (scheme # "" \/ ~HasPrefix(rest, "///")) /\ HasPrefix(rest, "//")
         THEN parseWithHost(scheme, parseAuthority(CutBefore(a, "/")),
                            IF Index(a, "/") >= 0 THEN From(a, Index(a, "/")) ELSE "", query, frag)
    ELSE urlOK(scheme, "", rest, query, frag)

\* parse, from what getScheme returned on
parseScheme(sch, frag) ==
    IF sch.err THEN URLError
    ELSE parseRest(ToLower(sch.scheme), CutBefore(sch.rest, "?"), From(CutBefore(sch.rest, "?"), 2),
                   CutAfter(sch.rest, "?"), frag)

\* url.Parse(rawURL): fragment cut off, then scheme, query, authority, path
urlParse(rawURL) ==
    IF ~validEscapes(CutAfter(rawURL, "#")) THEN URLError
    ELSE IF CutBefore(rawURL, "#") = "*"
         THEN [URLError EXCEPT !.err = FALSE, !.Path = "*", !.Fragment = CutAfter(rawURL, "#")]
    ELSE parseScheme(getSchemeAt(CutBefore(rawURL, "#"), 0), CutAfter(rawURL, "#"))

\* (*URL).Hostname: Host without a valid port and without the brackets of an
\* IPv6 literal
\* the brackets
stripBrackets(host) ==
    IF HasPrefix(host, "[") /\ HasSuffix(host, "]") THEN Slice(host, 1, Len(host) - 1) ELSE host

Hostname(u) ==
    IF LastIndex(u.Host, ":") # -1 /\ validOptionalPort(From(u.Host, LastIndex(u.Host, ":")))
    THEN stripBrackets(Slice(u.Host, 0, LastIndex(u.Host, ":")))
    ELSE stripBrackets(u.Host)

(***************************************************************************)
(* package net: ParseIP and the address classes of net.IP                  *)
(***************************************************************************)
\* one field of a dotted quad: 1 to 3 digits, no leading zero, at most 255
validIPv4Field(f) ==
    /\ Len(f) \in 1..3
    /\ AllIn(f, Digits)
    /\ (Len(f) > 1 => At(f, 0) # "0")
    /\ Atoi(f) <= 255

\* the four bytes of a dotted quad, <<>> when s is none
parseIPv4(s) ==
    LET f == Split(s, ".")
    IN  IF Len(f) = 4 /\ \A i \in 1..4 : validIPv4Field(f[i])
        THEN [i \in 1..4 |-> Atoi(f[i])] ELSE <<>>

\* one group of an IPv6 literal: 1 to 4 hexadecimal digits
validIPv6Group(g) ==
    /\ Len(g) \in 1..4
    /\ AllIn(g, HexDigits)

\* the bytes of a run of colon-separated groups whose last field may be a
\* dotted quad; <<-1>> when a field is malformed
\* v in front of the bytes rest, <<-1>> when rest is malformed
groupBefore(v, rest) ==
    IF rest # <<>> /\ rest[1] = -1 THEN <<-1>> ELSE <<v \div 256, v % 256>> \o rest

\* a trailing dotted quad, q what parseIPv4 made of it
quadBytes(q) == IF q = <<>> THEN <<-1>> ELSE q

RECURSIVE groupBytes(_)
groupBytes(gs) ==
    IF gs = <<>> THEN <<>>
    ELSE IF Len(gs) = 1 /\ Contains(gs[1], ".") THEN quadBytes(parseIPv4(gs[1]))
    ELSE IF ~validIPv6Group(gs[1]) THEN <<-1>>
    ELSE groupBefore(HexVal(gs[1]), groupBytes(Tail(gs)))

Zeros(n) == [i \in 1..n |-> 0]

\* the groups of one side of a "::"
fieldBytes(t) == IF t = "" THEN <<>> ELSE groupBytes(Split(t, ":"))

\* the sixteen bytes of the groups left and right of a "::"
joinIPv6(left, right) ==
    IF (left # <<>> /\ left[1] = -1) \/ (right # <<>> /\ right[1] = -1) THEN <<>>
    ELSE IF Len(left) + Len(right) <= 14
         THEN left \o Zeros(16 - Len(left) - Len(right)) \o right
    ELSE <<>>

\* the sixteen bytes of an IPv6 literal without "::"
fullIPv6(b) == IF Len(b) = 16 /\ b[1] # -1 THEN b ELSE <<>>

\* the sixteen bytes of an IPv6 literal, <<>> when s is none; e is the index
\* of "::", which stands for at least one group of zeros; a zone is not
\* accepted and a dotted quad may only end the address
parseIPv6At(s, e) ==
    IF Contains(s, "%") THEN <<>>
    ELSE IF e < 0 THEN fullIPv6(fieldBytes(s))
    ELSE IF Contains(Slice(s, 0, e), ".") THEN <<>>
    ELSE joinIPv6(fieldBytes(Slice(s, 0, e)), fieldBytes(From(s, e + 2)))

parseIPv6(s) == parseIPv6At(s, Index(s, "::"))

v4InV6Prefix == Zeros(10) \o <<255, 255>>

\* an IPv4 address in its 16-byte form, q what parseIPv4 made of it
mapped(q) == IF q = <<>> THEN <<>> ELSE v4InV6Prefix \o q

\* net.ParseIP: the 16-byte form of an IPv4 or IPv6 literal, <<>> for nil
ParseIP(s) ==
    IF Index(s, ":") >= 0 /\ (Index(s, ".") < 0 \/ Index(s, ":") < Index(s, ".")) THEN parseIPv6(s)
    ELSE IF Index(s, ".") >= 0 /\ Contains(s, ":") THEN <<>>
    ELSE IF Index(s, ".") >= 0 THEN mapped(parseIPv4(s))
    ELSE <<>>

\* IP.To4: the four bytes of an IPv4 or IPv4-mapped address, <<>> for nil
To4(ip) ==
    IF Len(ip) = 16 /\ SubSeq(ip, 1, 12) = v4InV6Prefix THEN SubSeq(ip, 13, 16) ELSE <<>>

IPv6loopback == Zeros(15) \o <<1>>

IsLoopback(ip) ==
    IF To4(ip) # <<>> THEN To4(ip)[1] = 127 ELSE ip = IPv6loopback

\* RFC 1918 for IPv4, RFC 4193 (fc00::/7) for IPv6
IsPrivate(ip) ==
    IF To4(ip) # <<>>
    THEN LET ip4 == To4(ip)
         IN  \/ ip4[1] = 10
             \/ ip4[1] = 172 /\ ip4[2] \div 16 = 1
             \/ ip4[1] = 192 /\ ip4[2] = 168
    ELSE Len(ip) = 16 /\ ip[1] \div 2 = 126

IsLinkLocalUnicast(ip) ==
    IF To4(ip) # <<>> THEN To4(ip)[1] = 169 /\ To4(ip)[2] = 254
    ELSE Len(ip) = 16 /\ ip[1] = 254 /\ ip[2] \div 64 = 2

IsLinkLocalMulticast(ip) ==
    IF To4(ip) # <<>> THEN To4(ip)[1] = 224 /\ To4(ip)[2] = 0 /\ To4(ip)[3] = 0
    ELSE Len(ip) = 16 /\ ip[1] = 255 /\ ip[2] % 16 = 2

IsUnspecified(ip) == ip = v4InV6Prefix \o Zeros(4) \/ ip = Zeros(16)

(***************************************************************************)
(* State                                                                   *)
(***************************************************************************)
VARIABLES
    AllowInternalURLsForTesting,    \* the package-level test override of the guard
    guard,                          \* the last call of isInternalURL: its input and result
    fetch,                          \* the fetchURL call in progress and the requests its client sent
    bookmarks,                      \* the rows of table bookmarks, by id
    lastInsertId,                   \* the id the last INSERT was given
    eventListeners,                 \* DB.eventListeners: event kind -> listeners in registration order
    now,                            \* the wall clock, in seconds
    ret,                            \* what the last call of a DB method or of ArchiveAndPersist did and returned
    attempt,                        \* the ArchiveAndPersist call in progress
    inProgress,                     \* the UpdateBookmark and the DeleteBookmark call between their two statements
    numWorkers,                     \* the --archive-workers flag of the serve command
    workQueue,                      \* the bookmarks buffered in the channel workQueue, oldest first
    sendq,                          \* the goroutines blocked in a send on workQueue, in the order they blocked
    workers,                        \* each archive worker: waiting to receive, or archiving the bookmark it received
    startup,                        \* the goroutine that queues the unarchived bookmarks on startup
    scan                            \* the loop of inlineCSSURLs: where it is, and the iterations it has made

netVars == <<AllowInternalURLsForTesting, guard, fetch>>
serveVars == <<numWorkers, workQueue, sendq, workers, startup>>
dbVars == <<bookmarks, lastInsertId, eventListeners, now, ret, attempt, inProgress, serveVars>>
vars == <<AllowInternalURLsForTesting, guard, fetch, bookmarks, lastInsertId, eventListeners, now, ret, attempt,
          inProgress, numWorkers, workQueue, sendq, workers, startup, scan>>

(***************************************************************************)
(* internal/core: the URL safety guard                                     *)
(***************************************************************************)
\* isInternalURL below the override: fail safe on a parse error or an empty
\* host, then the localhost names, the internal suffixes, the IP classes
internalIP(ip) ==
    /\ ip # <<>>
    /\ \/ IsLoopback(ip) \/ IsPrivate(ip)
       \/ IsLinkLocalUnicast(ip) \/ IsLinkLocalMulticast(ip)
       \/ IsUnspecified(ip)

internalName(lowerHost) ==
    \/ lowerHost = "localhost" \/ lowerHost = "127.0.0.1" \/ lowerHost = "::1"
    \/ HasSuffix(lowerHost, ".local")
    \/ HasSuffix(lowerHost, ".localhost")
    \/ HasSuffix(lowerHost, ".internal")
    \/ HasSuffix(lowerHost, ".localdomain")

\* the guard, did it compare the host as it is written
internalHostCaseSensitive(host) ==
    IF host = "" THEN TRUE
    ELSE IF internalName(host) THEN TRUE
    ELSE internalIP(ParseIP(host))

internalHost(host) ==
    IF host = "" THEN TRUE
    ELSE IF internalName(ToLower(host)) THEN TRUE
    ELSE internalIP(ParseIP(host))

internalParsed(u) == IF u.err THEN TRUE ELSE internalHost(Hostname(u))

blocksURL(urlStr) == internalParsed(urlParse(urlStr))

isInternalURL(urlStr) ==
    IF AllowInternalURLsForTesting THEN FALSE ELSE blocksURL(urlStr)

(***************************************************************************)
(* The URLs the guard is asked about: every host below under both schemes, *)
(* with and without a port, and the malformed URLs.  class names the kind  *)
(* of host the text denotes.                                               *)
(***************************************************************************)
HostsOfClass ==
    [localhost   |-> {"localhost", "LOCALHOST", "LocalHost"},
     loopback    |-> {"127.0.0.1", "127.8.9.1", "[::1]", "[::ffff:127.0.0.1]"},
     rfc1918     |-> {"10.0.0.1", "172.16.0.1", "172.31.255.254", "192.168.1.1", "[::ffff:10.1.2.3]"},
     linklocal   |-> {"169.254.1.1", "169.254.169.254", "224.0.0.1", "[fe80::1]", "[febf::1]", "[ff02::1]"},
     unspecified |-> {"0.0.0.0", "[::]"},
     suffix      |-> {"server.local", "myapp.localhost", "server.internal", "host.localdomain",
                      "SERVER.LOCAL", "Db.Internal"},
     uniquelocal |-> {"[fd00::1]", "[fc00::1]"},
     public      |-> {"example.com", "cdn.example.com", "93.184.216.34", "11.0.0.1", "172.15.0.1",
                      "172.32.0.1", "192.169.1.1", "169.253.1.1", "128.0.0.1", "224.0.1.1",
                      "[2001:db8::1]", "[fec0::1]", "[fe7f::1]", "[ff05::2]", "[fe00::1]",
                      "local", "internal", "notlocalhost", "localhost.example.com",
                      "example.localx", "local.example.org"}]

HostClasses == DOMAIN HostsOfClass

Ports == {"", ":8080"}
Schemes == {"http", "https"}

WellFormedURLs ==
    UNION {{[url |-> sch \o "://" \o h \o p \o "/api", class |-> c] :
                sch \in Schemes, h \in HostsOfClass[c], p \in Ports} : c \in HostClasses}

MalformedURLs ==
    {[url |-> "http://[::1/", class |-> "unparsable"],
     [url |-> "http://host:port/", class |-> "unparsable"],
     [url |-> "http://exa mple.com/", class |-> "unparsable"],
     [url |-> ":80/x", class |-> "unparsable"],
     [url |-> "http:///path", class |-> "emptyhost"],
     [url |-> "/relative/path", class |-> "emptyhost"],
     [url |-> "", class |-> "emptyhost"],
     [url |-> "mailto:root@localhost", class |-> "emptyhost"]}

GuardInputs == WellFormedURLs \cup MalformedURLs

NoGuardCall == [url |-> "", class |-> "none", called |-> FALSE, override |-> FALSE, internal |-> FALSE]
NoFetch == [pc |-> "idle", urlStr |-> "", maxSize |-> 0, cur |-> "", via |-> 0, requests |-> {},
            err |-> "", data |-> "", contentType |-> ""]

(***************************************************************************)
(* internal/core: fetchURL and the http.Client it sends through            *)
(***************************************************************************)
\* net/http's default redirect policy gives up at the tenth request
MaxRedirects == 10

\* what a caller may ask for
FetchURLs ==
    {"http://169.254.169.254/", "http://localhost/secret", "http://192.168.1.1/admin",
     "http://server.internal/api", "https://example.com/style.css",
     "http://cdn.example.com:8080/img.gif", "ftp://example.com/x",
     "http://[::1/", "/relative/path"}

\* where a server may redirect to
RedirectTargets ==
    {"http://169.254.169.254/latest/meta-data/", "https://example.com/moved.css",
     "http://localhost:8080/admin"}

Bodies == {"", "GIF89a", "body{color:red}"}
ContentTypes == {"", "text/css; charset=utf-8", "image/gif", ";charset=utf-8"}
MaxSizes == {0, 4}

\* what the network may answer to one request; status 0 is a transport failure
ServerResponses ==
    {[status |-> 200, location |-> "", contentType |-> ct, body |-> b] : ct \in ContentTypes, b \in Bodies}
    \cup {[status |-> st, location |-> "", contentType |-> "", body |-> ""] : st \in {0, 204, 404, 500}}
    \cup {[status |-> 302, location |-> l, contentType |-> "", body |-> ""] : l \in RedirectTargets}

\* http.DetectContentType on the bytes read
DetectContentType(data) ==
    IF HasPrefix(data, "GIF87a") \/ HasPrefix(data, "GIF89a") THEN "image/gif"
    ELSE IF HasPrefix(ToLower(data), "<html") \/ HasPrefix(ToLower(data), "<!doctype html")
         THEN "text/html; charset=utf-8"
    ELSE "text/plain; charset=utf-8"

\* io.ReadAll on the body, had it no limit
readBodyUnlimited(body, maxSize) == body

\* io.ReadAll on the body, through io.LimitReader when maxSize > 0
readBody(body, maxSize) ==
    IF maxSize > 0 /\ Len(body) > maxSize THEN Slice(body, 0, maxSize) ELSE body

\* fetchURL up to client.Do, had it no guard
fetchURLBeginUnguarded(urlStr, maxSize) ==
    LET start == [NoFetch EXCEPT !.urlStr = urlStr, !.maxSize = maxSize]
        fail(msg) == [start EXCEPT !.pc = "done", !.err = msg]
    IN  Only({IF u.err THEN fail("parse " \o urlStr)
              ELSE IF u.Scheme # "http" /\ u.Scheme # "https" THEN fail("unsupported protocol scheme")
              ELSE IF u.Host = "" THEN fail("http: no Host in request URL")
              ELSE [start EXCEPT !.pc = "sending", !.cur = urlStr] :
              u \in {urlParse(urlStr)}})

\* fetchURL up to client.Do: the guard, http.NewRequestWithContext, and the
\* checks of the client before its first send
fetchURLBegin(urlStr, maxSize) ==
    LET start == [NoFetch EXCEPT !.urlStr = urlStr, !.maxSize = maxSize]
        fail(msg) == [start EXCEPT !.pc = "done", !.err = msg]
    IN  IF isInternalURL(urlStr) THEN fail("blocked request to internal URL: " \o urlStr)
        ELSE Only({IF u.err THEN fail("parse " \o urlStr)
                   ELSE IF u.Scheme # "http" /\ u.Scheme # "https" THEN fail("unsupported protocol scheme")
                   ELSE IF u.Host = "" THEN fail("http: no Host in request URL")
                   ELSE [start EXCEPT !.pc = "sending", !.cur = urlStr] :
                   u \in {urlParse(urlStr)}})

\* one round trip, did fetchURL take every 2xx status for a success
clientRoundTripAny2xx(f, resp) ==
    LET sent == [f EXCEPT !.requests = @ \cup {f.cur}, !.via = @ + 1]
        fail(msg) == [sent EXCEPT !.pc = "done", !.err = msg]
        data == readBody(resp.body, f.maxSize)
    IN  IF resp.status = 0 THEN fail("dial tcp: connection refused")
        ELSE IF resp.status = 302
             THEN IF sent.via >= MaxRedirects THEN fail("stopped after 10 redirects")
                  ELSE [sent EXCEPT !.cur = resp.location]
        ELSE IF resp.status \notin 200..299 THEN fail("HTTP " \o Itoa(resp.status))
        ELSE [sent EXCEPT !.pc = "done", !.data = data,
                          !.contentType = IF resp.contentType = "" THEN DetectContentType(data)
                                          ELSE resp.contentType]

\* one round trip of client.Do and what fetchURL makes of the answer: the
\* client follows a redirect to its Location without asking the guard
clientRoundTrip(f, resp) ==
    LET sent == [f EXCEPT !.requests = @ \cup {f.cur}, !.via = @ + 1]
        fail(msg) == [sent EXCEPT !.pc = "done", !.err = msg]
        data == readBody(resp.body, f.maxSize)
    IN  IF resp.status = 0 THEN fail("dial tcp: connection refused")
        ELSE IF resp.status = 302
             THEN IF sent.via >= MaxRedirects THEN fail("stopped after 10 redirects")
                  ELSE [sent EXCEPT !.cur = resp.location]
        ELSE IF resp.status # 200 THEN fail("HTTP " \o Itoa(resp.status))
        ELSE [sent EXCEPT !.pc = "done", !.data = data,
                          !.contentType = IF resp.contentType = "" THEN DetectContentType(data)
                                          ELSE resp.contentType]

(***************************************************************************)
(* internal/core/db: the bookmarks table and the event bus                 *)
(***************************************************************************)
MaxBookmarks == 2       \* ids handed out by the table
MaxTime == 1            \* seconds the clock may advance
MaxListeners == 3       \* listeners registered in one run

\* a nullable TEXT column: NULL, or the one value it holds
NULL == <<>>
Some(v) == <<v>>
COALESCE(col, d) == IF col = NULL THEN d ELSE col[1]

Pad2(n) == IF n < 10 THEN "0" \o Itoa(n) ELSE Itoa(n)

\* t.Format(time.RFC3339) of the instant t seconds after the start of the run
RFC3339(t) == "2025-01-01T00:" \o Pad2(t \div 60) \o ":" \o Pad2(t % 60) \o "Z"

\* time.Parse(time.RFC3339, s) as seconds after the start of the run
ParseRFC3339(s) == Atoi(Slice(s, 14, 16)) * 60 + Atoi(Slice(s, 17, 19))

ArchiveStatusOK == "ok"
ArchiveStatusError == "error"

EventKinds == {"bookmark_created", "bookmark_deleted", "bookmark_updated",
               "archive_result_saved", "archive_cleared"}

BookmarkCreatedEvent(b) == [kind |-> "bookmark_created", Bookmark |-> b]
BookmarkUpdatedEvent(b) == [kind |-> "bookmark_updated", Bookmark |-> b]
BookmarkDeletedEvent(b) == [kind |-> "bookmark_deleted", Bookmark |-> b]
ArchiveResultSavedEvent(id, status) == [kind |-> "archive_result_saved", BookmarkID |-> id, Status |-> status]
ArchiveClearedEvent(id) == [kind |-> "archive_cleared", BookmarkID |-> id]

\* a listener is the number of its registration, written negative when the
\* function registered returns an error
ListenerFails(listener) == listener < 0

\* the listeners of one kind whose error emit logs, in call order
RECURSIVE logErrors(_, _)
logErrors(listeners, i) ==
    IF i > Len(listeners) THEN <<>>
    ELSE (IF ListenerFails(listeners[i]) THEN <<listeners[i]>> ELSE <<>>) \o logErrors(listeners, i + 1)

\* the loop of emit, did it end at the first listener that returns an error
RECURSIVE callListenersUntilError(_, _)
callListenersUntilError(listeners, i) ==
    IF i > Len(listeners) THEN <<>>
    ELSE IF ListenerFails(listeners[i]) THEN <<listeners[i]>>
    ELSE <<listeners[i]>> \o callListenersUntilError(listeners, i + 1)

\* the listeners of one kind called one after the other, in slice order
RECURSIVE callListeners(_, _)
callListeners(listeners, i) ==
    IF i > Len(listeners) THEN <<>>
    ELSE <<listeners[i]>> \o callListeners(listeners, i + 1)

\* emit, did it stop after the first listener
emitToFirstListener(rows, event) ==
    [event |-> event, committed |-> rows,
     called |-> IF eventListeners[event.kind] = <<>> THEN <<>> ELSE <<eventListeners[event.kind][1]>>,
     logged |-> logErrors(eventListeners[event.kind], 1)]

\* emit: the listeners it called, in call order, the rows a listener found
\* in the table when it was called, and the listeners whose error it logged
emit(rows, event) ==
    [event |-> event, committed |-> rows,
     called |-> callListeners(eventListeners[event.kind], 1),
     logged |-> logErrors(eventListeners[event.kind], 1)]

\* ValidateBookmarkURL, did it not look at the host
ValidateBookmarkURLSchemeOnly(urlStr) ==
    IF urlStr = "" THEN "invalid URL: empty URL"
    ELSE Only({IF u.err THEN "invalid URL: parse error"
               ELSE IF u.Scheme # "http" /\ u.Scheme # "https"
                    THEN "invalid URL: scheme must be http or https, got " \o u.Scheme
               ELSE "" :
               u \in {urlParse(urlStr)}})

ValidateBookmarkURL(urlStr) ==
    IF urlStr = "" THEN "invalid URL: empty URL"
    ELSE Only({IF u.err THEN "invalid URL: parse error"
               ELSE IF u.Scheme # "http" /\ u.Scheme # "https"
                    THEN "invalid URL: scheme must be http or https, got " \o u.Scheme
               ELSE IF u.Host = "" THEN "invalid URL: missing host"
               ELSE "" :
               u \in {urlParse(urlStr)}})

NewRow(url, title, createdAt) ==
    [url |-> url, title |-> title, created_at |-> createdAt,
     archived_html |-> NULL, archived_url |-> NULL, archive_attempted_at |-> NULL,
     archived_at |-> NULL, archive_status |-> NULL, archive_error |-> NULL]

Bookmark(id, row) == [ID |-> id, URL |-> row.url, Title |-> row.title, CreatedAt |-> row.created_at]
NoBookmark == [ID |-> 0, URL |-> "", Title |-> "", CreatedAt |-> ""]

NotFound(id) == "bookmark not found: " \o Itoa(id)

GetBookmark(rows, id) ==
    IF id \in DOMAIN rows THEN [b |-> Bookmark(id, rows[id]), err |-> ""]
    ELSE [b |-> NoBookmark, err |-> NotFound(id)]

GetBookmarkArchive(rows, id) ==
    IF id \notin DOMAIN rows
    THEN [err |-> NotFound(id), BookmarkID |-> 0, ArchivedURL |-> "", ArchivedHTML |-> <<>>,
          ArchiveAttemptedAt |-> "", ArchivedAt |-> "", ArchiveStatus |-> "", ArchiveError |-> ""]
    ELSE [err |-> "", BookmarkID |-> id,
          ArchivedURL |-> COALESCE(rows[id].archived_url, ""),
          ArchivedHTML |-> COALESCE(rows[id].archived_html, <<>>),
          ArchiveAttemptedAt |-> COALESCE(rows[id].archive_attempted_at, ""),
          ArchivedAt |-> COALESCE(rows[id].archived_at, ""),
          ArchiveStatus |-> COALESCE(rows[id].archive_status, ""),
          ArchiveError |-> COALESCE(rows[id].archive_error, "")]

\* what a method of DB hands back: the table after it, its return values
\* and the events it emitted
Result(rows, id, err, emits) == [rows |-> rows, id |-> id, err |-> err, emits |-> emits]

\* AddBookmark, the INSERT giving the row the id newID
AddBookmark(rows, newID, url, title, t) ==
    Only({IF invalid # "" THEN Result(rows, 0, invalid, <<>>)
          ELSE Result((newID :> NewRow(url, title, b.CreatedAt)) @@ rows, newID, "",
                      <<emit((newID :> NewRow(url, title, b.CreatedAt)) @@ rows, BookmarkCreatedEvent(b))>>) :
          invalid \in {ValidateBookmarkURL(url)},
          b \in {[ID |-> newID, URL |-> url, Title |-> title, CreatedAt |-> RFC3339(t)]}})

\* UpdateBookmark up to its look at the rows affected: the UPDATE
UpdateBookmark(rows, id, url, title) ==
    IF id \notin DOMAIN rows THEN Result(rows, id, NotFound(id), <<>>)
    ELSE Result([rows EXCEPT ![id].url = url, ![id].title = title], id, "", <<>>)

\* UpdateBookmark after its UPDATE changed a row: the bookmark is read back
\* from rows, the table as it is by then, and emitted when that read succeeds
UpdateBookmarkReturn(rows, id) ==
    Result(rows, id, "",
           IF GetBookmark(rows, id).err = ""
           THEN <<emit(rows, BookmarkUpdatedEvent(GetBookmark(rows, id).b))>>
           ELSE <<>>)

\* DeleteBookmark from its DELETE on; b is what GetBookmark returned before
DeleteBookmark(rows, id, b) ==
    IF id \notin DOMAIN rows THEN Result(rows, id, NotFound(id), <<>>)
    ELSE Result([i \in DOMAIN rows \ {id} |-> rows[i]], id, "",
                <<emit([i \in DOMAIN rows \ {id} |-> rows[i]],
                       BookmarkDeletedEvent(IF b.ID = 0 THEN [b EXCEPT !.ID = id] ELSE b))>>)

\* UPDATE ... SET archived_at = NULL: no look at the rows affected, no event
QueueBookmarkForArchive(rows, id) ==
    IF id \notin DOMAIN rows THEN Result(rows, id, "", <<>>)
    ELSE Result([rows EXCEPT ![id].archived_at = NULL], id, "", <<>>)

\* ClearBookmarkArchive, did it leave the completion time in place
ClearBookmarkArchiveKeepingArchivedAt(rows, id) ==
    LET cleared == [rows EXCEPT ![id].archived_html = NULL, ![id].archived_url = NULL,
                                ![id].archive_attempted_at = NULL,
                                ![id].archive_status = NULL, ![id].archive_error = NULL]
    IN  IF id \notin DOMAIN rows THEN Result(rows, id, NotFound(id), <<>>)
        ELSE Result(cleared, id, "", <<emit(cleared, ArchiveClearedEvent(id))>>)

ClearBookmarkArchive(rows, id) ==
    LET cleared == [rows EXCEPT ![id].archived_html = NULL, ![id].archived_url = NULL,
                                ![id].archive_attempted_at = NULL, ![id].archived_at = NULL,
                                ![id].archive_status = NULL, ![id].archive_error = NULL]
    IN  IF id \notin DOMAIN rows THEN Result(rows, id, NotFound(id), <<>>)
        ELSE Result(cleared, id, "", <<emit(cleared, ArchiveClearedEvent(id))>>)

\* SaveArchiveResult, did its UPDATE write the archived URL over the
\* bookmark's own
SaveArchiveResultOverURL(rows, id, attemptedAt, archivedAt, status, archiveErr, archivedURL, archivedHTML) ==
    LET archivedAtStr == IF archivedAt = NULL THEN NULL ELSE Some(RFC3339(archivedAt[1]))
        saved == [rows EXCEPT ![id].archive_attempted_at = Some(RFC3339(attemptedAt)),
                              ![id].archived_at = archivedAtStr,
                              ![id].archive_status = Some(status),
                              ![id].archive_error = Some(archiveErr),
                              ![id].url = archivedURL,
                              ![id].archived_html = Some(archivedHTML)]
    IN  IF id \notin DOMAIN rows THEN Result(rows, id, NotFound(id), <<>>)
        ELSE Result(saved, id, "", <<emit(saved, ArchiveResultSavedEvent(id, status))>>)

\* archivedAt is a *time.Time: NULL for nil, Some(t) otherwise
SaveArchiveResult(rows, id, attemptedAt, archivedAt, status, archiveErr, archivedURL, archivedHTML) ==
    LET archivedAtStr == IF archivedAt = NULL THEN NULL ELSE Some(RFC3339(archivedAt[1]))
        saved == [rows EXCEPT ![id].archive_attempted_at = Some(RFC3339(attemptedAt)),
                              ![id].archived_at = archivedAtStr,
                              ![id].archive_status = Some(status),
                              ![id].archive_error = Some(archiveErr),
                              ![id].archived_url = Some(archivedURL),
                              ![id].archived_html = Some(archivedHTML)]
    IN  IF id \notin DOMAIN rows THEN Result(rows, id, NotFound(id), <<>>)
        ELSE Result(saved, id, "", <<emit(saved, ArchiveResultSavedEvent(id, status))>>)

\* the ids of rows in an order ORDER BY created_at DESC may produce them in
RECURSIVE OrderedByCreatedAtDesc(_, _)
OrderedByCreatedAtDesc(rows, ids) ==
    IF ids = {} THEN {<<>>}
    ELSE UNION {{<<i>> \o rest : rest \in OrderedByCreatedAtDesc(rows, ids \ {i})} :
                i \in {j \in ids : \A k \in ids :
                          ParseRFC3339(rows[j].created_at) >= ParseRFC3339(rows[k].created_at)}}

\* queryBookmarks: LIMIT ? is added when limit > 0
Limited(out, limit) == IF limit > 0 /\ Len(out) > limit THEN SubSeq(out, 1, limit) ELSE out

\* ListBookmarksToArchive, did it select the rows without an archive status
ListBookmarksWithoutStatus(rows, limit) ==
    {Limited([n \in 1..Len(ids) |-> Bookmark(ids[n], rows[ids[n]])], limit) :
        ids \in OrderedByCreatedAtDesc(rows, {i \in DOMAIN rows : rows[i].archive_status = NULL})}

\* the results ListBookmarksToArchive may return: rows WHERE archived_at IS
\* NULL, rows of equal created_at in any order
ListBookmarksToArchive(rows, limit) ==
    {Limited([n \in 1..Len(ids) |-> Bookmark(ids[n], rows[ids[n]])], limit) :
        ids \in OrderedByCreatedAtDesc(rows, {i \in DOMAIN rows : rows[i].archived_at = NULL})}

(***************************************************************************)
(* net/url: ResolveReference and String; strings.Trim; encoding/base64     *)
(***************************************************************************)
RECURSIVE TrimLeft(_, _)
TrimLeft(s, cutset) ==
    IF s # "" /\ Contains(cutset, At(s, 0)) THEN TrimLeft(From(s, 1), cutset) ELSE s

RECURSIVE TrimRight(_, _)
TrimRight(s, cutset) ==
    IF s # "" /\ Contains(cutset, At(s, Len(s) - 1))
    THEN TrimRight(Slice(s, 0, Len(s) - 1), cutset) ELSE s

Trim(s, cutset) == TrimRight(TrimLeft(s, cutset), cutset)
TrimSpace(s) == Trim(s, " \t\n\r")

\* the loop of resolvePath that drops "." and ".." elements; dst starts as "/"
RECURSIVE removeDotSegments(_, _, _)
removeDotSegments(elems, dst, first) ==
    IF elems = <<>> THEN dst
    ELSE IF Head(elems) = "." THEN removeDotSegments(Tail(elems), dst, FALSE)
    ELSE IF Head(elems) = ".."
         THEN LET str == From(dst, 1)
                  index == LastIndex(str, "/")
              IN  IF index = -1 THEN removeDotSegments(Tail(elems), "/", TRUE)
                  ELSE removeDotSegments(Tail(elems), "/" \o Slice(str, 0, index), first)
    ELSE removeDotSegments(Tail(elems), dst \o (IF first THEN "" ELSE "/") \o Head(elems), FALSE)

\* resolvePath below the joining of base and ref: elems are the elements
\* of the joined path
cleanPath(elems) ==
    Only({IF Len(r) > 1 /\ At(r, 1) = "/" THEN From(r, 1) ELSE r :
          r \in {IF elems[Len(elems)] = "." \/ elems[Len(elems)] = ".."
                 THEN removeDotSegments(elems, "/", TRUE) \o "/"
                 ELSE removeDotSegments(elems, "/", TRUE)}})

resolvePath(base, ref) ==
    Only({IF full = "" THEN "" ELSE cleanPath(Split(full, "/")) :
          full \in {IF ref = "" THEN base
                    ELSE IF At(ref, 0) # "/" THEN Slice(base, 0, LastIndex(base, "/") + 1) \o ref
                    ELSE ref}})

\* (*URL).ResolveReference for URLs without userinfo
ResolveReference(u, ref) ==
    LET url == [ref EXCEPT !.Scheme = IF ref.Scheme = "" THEN u.Scheme ELSE ref.Scheme]
        inherit == ref.Path = "" /\ ref.RawQuery = ""
        url2 == [url EXCEPT !.RawQuery = IF inherit THEN u.RawQuery ELSE @,
                            !.Fragment = IF inherit /\ ref.Fragment = "" THEN u.Fragment ELSE @]
    IN  IF ref.Scheme # "" \/ ref.Host # "" THEN [url EXCEPT !.Path = resolvePath(ref.Path, "")]
        ELSE IF ref.Opaque # "" THEN [url EXCEPT !.Host = "", !.Path = ""]
        ELSE IF ref.Path = "" /\ u.Opaque # ""
             THEN [url2 EXCEPT !.Opaque = u.Opaque, !.Host = "", !.Path = ""]
        ELSE [url2 EXCEPT !.Host = u.Host, !.Path = resolvePath(u.Path, ref.Path)]

\* (*URL).String for URLs whose parts need no escaping
URLString(u) ==
    LET scheme == IF u.Scheme # "" THEN u.Scheme \o ":" ELSE ""
        authority == IF (u.Scheme # "" \/ u.Host # "") /\ (u.Host # "" \/ u.Path # "")
                     THEN "//" \o u.Host ELSE ""
        slash == IF u.Path # "" /\ At(u.Path, 0) # "/" /\ u.Host # "" THEN "/" ELSE ""
        dot == IF scheme = "" /\ authority = "" /\ Contains(CutBefore(u.Path, "/"), ":") THEN "./" ELSE ""
        body == IF u.Opaque # "" THEN u.Opaque ELSE authority \o slash \o dot \o u.Path
    IN  scheme \o body \o (IF u.RawQuery # "" THEN "?" \o u.RawQuery ELSE "")
               \o (IF u.Fragment # "" THEN "#" \o u.Fragment ELSE "")

\* the byte of a printable ASCII character: 32..95, and 97..126
ASCIIUpper == " !\"#$%&'()*+,-./0123456789:;<=>?@ABCDEFGHIJKLMNOPQRSTUVWXYZ[\\]^_"
ASCIILower == "abcdefghijklmnopqrstuvwxyz{|}~"
Ord(c) == IF Contains(ASCIIUpper, c) THEN 32 + Index(ASCIIUpper, c) ELSE 97 + Index(ASCIILower, c)

encodeStd == "ABCDEFGHIJKLMNOPQRSTUVWXYZabcdefghijklmnopqrstuvwxyz0123456789+/"

\* base64.StdEncoding.EncodeToString: three bytes to four digits, '=' padding
RECURSIVE EncodeToString(_)
EncodeToString(src) ==
    IF src = "" THEN ""
    ELSE LET n == Len(src)
             val == Ord(At(src, 0)) * 65536
                    + (IF n > 1 THEN Ord(At(src, 1)) * 256 ELSE 0)
                    + (IF n > 2 THEN Ord(At(src, 2)) ELSE 0)
         IN  At(encodeStd, val \div 262144) \o At(encodeStd, (val \div 4096) % 64)
             \o (IF n > 1 THEN At(encodeStd, (val \div 64) % 64) ELSE "=")
             \o (IF n > 2 THEN At(encodeStd, val % 64) ELSE "=")
             \o (IF n > 3 THEN EncodeToString(From(src, 3)) ELSE "")

(***************************************************************************)
(* internal/core: the resource inliner.  An HTML text is the sequence of   *)
(* its tags, "" the empty sequence; web names what the network answers    *)
(***************************************************************************)
MaxResourceSize == 5 * 1024 * 1024


\* what the network web answers to a request for url
Respond(web, url) ==
    LET ok(ct, body) == [status |-> 200, location |-> "", contentType |-> ct, body |-> body]
    IN  IF web = "missing" THEN [status |-> 404, location |-> "", contentType |-> "", body |-> ""]
        ELSE IF web = "down" THEN [status |-> 0, location |-> "", contentType |-> "", body |-> ""]
        ELSE IF web = "broken" THEN [status |-> 500, location |-> "", contentType |-> "", body |-> ""]
        ELSE IF web = "noimages" /\ HasSuffix(url, ".gif")
             THEN [status |-> 404, location |-> "", contentType |-> "", body |-> ""]
        ELSE IF web = "moved" /\ url # "http://169.254.169.254/latest/meta-data/"
             THEN [status |-> 302, location |-> "http://169.254.169.254/latest/meta-data/",
                   contentType |-> "", body |-> ""]
        ELSE IF HasSuffix(url, ".css") THEN ok("text/css; charset=utf-8", "body{background:url(bg.gif)}")
        ELSE IF HasSuffix(url, ".js") THEN ok("application/javascript", "init()")
        ELSE IF HasSuffix(url, ".gif") THEN ok("", "GIF89a")
        ELSE ok("text/plain", "secret")

\* client.Do to its end: round trips until an answer is final
RECURSIVE clientDo(_, _)
clientDo(f, web) ==
    IF f.pc # "sending" THEN f
    ELSE Only({clientDo(g, web) : g \in {clientRoundTrip(f, Respond(web, f.cur))}})

fetchURL(urlStr, maxSize, web) == Only({clientDo(f, web) : f \in {fetchURLBegin(urlStr, maxSize)}})

fetchResource(urlStr, maxSize, web) ==
    Only({[err |-> result.err, content |-> result.data] : result \in {fetchURL(urlStr, maxSize, web)}})

\* the content type cut before its first ';'
mediaType(contentType) ==
    IF Index(contentType, ";") > 0 THEN TrimSpace(Slice(contentType, 0, Index(contentType, ";")))
    ELSE contentType

\* the data URI fetchAsDataURI makes of a fetch that succeeded
dataURIOf(result) == "data:" \o mediaType(result.contentType) \o ";base64," \o EncodeToString(result.data)

fetchAsDataURI(urlStr, maxSize, web) ==
    Only({IF result.err # "" THEN [err |-> result.err, uri |-> ""]
          ELSE [err |-> "", uri |-> dataURIOf(result)] :
          result \in {fetchURL(urlStr, maxSize, web)}})

\* base is a parsed URL
resolveURL(base, ref) ==
    IF ref = "" \/ HasPrefix(ref, "data:") \/ HasPrefix(ref, "javascript:") THEN ""
    ELSE Only({IF refURL.err THEN "" ELSE URLString(ResolveReference(base, refURL)) :
               refURL \in {urlParse(ref)}})

\* one url(...) of a stylesheet, did a failed fetch leave nothing of it
inlineCSSURLDroppingFailed(original, urlContent, baseURL, maxSize, web) ==
    IF HasPrefix(urlContent, "data:") THEN original
    ELSE Only({IF resolved = "" THEN original
               ELSE Only({IF dataURI.err # "" THEN "" ELSE "url(" \o dataURI.uri \o ")" :
                          dataURI \in {fetchAsDataURI(resolved, maxSize, web)}}) :
               resolved \in {resolveURL(baseURL, urlContent)}})

\* one url(...) of a stylesheet, as inlineCSSURLs writes it to its result
inlineCSSURL(original, urlContent, baseURL, maxSize, web) ==
    IF HasPrefix(urlContent, "data:") THEN original
    ELSE Only({IF resolved = "" THEN original
               ELSE Only({IF dataURI.err # "" THEN original ELSE "url(" \o dataURI.uri \o ")" :
                          dataURI \in {fetchAsDataURI(resolved, maxSize, web)}}) :
               resolved \in {resolveURL(baseURL, urlContent)}})

\* the loop of inlineCSSURLs, did it end after the first url(...)
inlineCSSURLsFirstOnly(remaining, baseURL, maxSize, web) ==
    LET startIdx == Index(remaining, "url(")
        afterURL == From(remaining, startIdx + 4)
        endIdx == Index(afterURL, ")")
        urlContent == Trim(TrimSpace(Slice(afterURL, 0, endIdx)), "\"'")
        original == Slice(remaining, startIdx, startIdx + 4 + endIdx + 1)
    IN  IF startIdx = -1 THEN remaining
        ELSE IF endIdx = -1 THEN Slice(remaining, 0, startIdx) \o From(remaining, startIdx)
        ELSE Slice(remaining, 0, startIdx)
             \o inlineCSSURL(original, urlContent, baseURL, maxSize, web)
             \o From(remaining, startIdx + 4 + endIdx + 1)

\* the loop of inlineCSSURLs over what remains of the text
RECURSIVE inlineCSSURLsFrom(_, _, _, _)
inlineCSSURLsFrom(remaining, baseURL, maxSize, web) ==
    LET startIdx == Index(remaining, "url(")
        afterURL == From(remaining, startIdx + 4)
        endIdx == Index(afterURL, ")")
        urlContent == Trim(TrimSpace(Slice(afterURL, 0, endIdx)), "\"'")
        original == Slice(remaining, startIdx, startIdx + 4 + endIdx + 1)
    IN  IF startIdx = -1 THEN remaining
        ELSE IF endIdx = -1 THEN Slice(remaining, 0, startIdx) \o From(remaining, startIdx)
        ELSE Slice(remaining, 0, startIdx)
             \o inlineCSSURL(original, urlContent, baseURL, maxSize, web)
             \o inlineCSSURLsFrom(From(remaining, startIdx + 4 + endIdx + 1), baseURL, maxSize, web)

\* one iteration, did it hand the url(data:...) it wrote back to the scan
inlineCSSURLsIterationRescanning(remaining, result, baseURL, maxSize, web) ==
    LET startIdx == Index(remaining, "url(")
        afterURL == From(remaining, startIdx + 4)
        endIdx == Index(afterURL, ")")
        urlContent == Trim(TrimSpace(Slice(afterURL, 0, endIdx)), "\"'")
        original == Slice(remaining, startIdx, startIdx + 4 + endIdx + 1)
        written == inlineCSSURL(original, urlContent, baseURL, maxSize, web)
    IN  IF startIdx = -1 THEN [result |-> result \o remaining, remaining |-> remaining, pc |-> "return"]
        ELSE IF endIdx = -1
        THEN [result |-> result \o Slice(remaining, 0, startIdx) \o From(remaining, startIdx),
              remaining |-> remaining, pc |-> "return"]
        ELSE IF written = original
        THEN [result |-> result \o Slice(remaining, 0, startIdx) \o written,
              remaining |-> From(remaining, startIdx + 4 + endIdx + 1), pc |-> "for"]
        ELSE [result |-> result \o Slice(remaining, 0, startIdx),
              remaining |-> written \o From(remaining, startIdx + 4 + endIdx + 1), pc |-> "for"]

\* one iteration of the loop of inlineCSSURLs: what it appends to result,
\* what it leaves in remaining, and whether it goes round again or breaks
inlineCSSURLsIteration(remaining, result, baseURL, maxSize, web) ==
    LET startIdx == Index(remaining, "url(")
        afterURL == From(remaining, startIdx + 4)
        endIdx == Index(afterURL, ")")
        urlContent == Trim(TrimSpace(Slice(afterURL, 0, endIdx)), "\"'")
        original == Slice(remaining, startIdx, startIdx + 4 + endIdx + 1)
    IN  IF startIdx = -1 THEN [result |-> result \o remaining, remaining |-> remaining, pc |-> "return"]
        ELSE IF endIdx = -1
        THEN [result |-> result \o Slice(remaining, 0, startIdx) \o From(remaining, startIdx),
              remaining |-> remaining, pc |-> "return"]
        ELSE [result |-> result \o Slice(remaining, 0, startIdx)
                             \o inlineCSSURL(original, urlContent, baseURL, maxSize, web),
              remaining |-> From(remaining, startIdx + 4 + endIdx + 1), pc |-> "for"]

\* the url(...) occurrences the loop of inlineCSSURLs finds in a text, in
\* order: each from a "url(" to the next ")", with what it encloses after
\* the trimming of spaces and quotes, and the text before it
RECURSIVE urlReferences(_)
urlReferences(remaining) ==
    LET startIdx == Index(remaining, "url(")
        afterURL == From(remaining, startIdx + 4)
        endIdx == Index(afterURL, ")")
    IN  IF startIdx = -1 \/ endIdx = -1 THEN <<>>
        ELSE <<[before |-> Slice(remaining, 0, startIdx),
                original |-> Slice(remaining, startIdx, startIdx + 4 + endIdx + 1),
                urlContent |-> Trim(TrimSpace(Slice(afterURL, 0, endIdx)), "\"'")]>>
             \o urlReferences(From(remaining, startIdx + 4 + endIdx + 1))

\* the URLs inlineCSSURLs calls fetchAsDataURI with, in order
RECURSIVE fetchedFrom(_, _, _)
fetchedFrom(refs, baseURL, k) ==
    IF k > Len(refs) THEN <<>>
    ELSE (IF HasPrefix(refs[k].urlContent, "data:") \/ resolveURL(baseURL, refs[k].urlContent) = "" THEN <<>>
          ELSE <<resolveURL(baseURL, refs[k].urlContent)>>)
         \o fetchedFrom(refs, baseURL, k + 1)

fetchedURLs(css, baseURLStr) ==
    Only({IF baseURL.err THEN <<>> ELSE fetchedFrom(urlReferences(css), baseURL, 1) :
          baseURL \in {urlParse(baseURLStr)}})

inlineCSSURLs(css, baseURLStr, opts, web) ==
    Only({IF baseURL.err THEN css ELSE inlineCSSURLsFrom(css, baseURL, opts.MaxResourceSize, web) :
          baseURL \in {urlParse(baseURLStr)}})

DefaultInlineOptions(baseURL) ==
    [BaseURL |-> baseURL, MaxResourceSize |-> MaxResourceSize,
     InlineImages |-> TRUE, InlineCSS |-> TRUE, InlineJS |-> TRUE]

\* one tag of an HTML text: its name, its attributes, the text it encloses
El(tag, attrs, text) == [tag |-> tag, attrs |-> attrs, text |-> text]
NoAttrs == <<>>
HasAttr(e, name) == name \in DOMAIN e.attrs
SetAttr(e, name, v) == [e EXCEPT !.attrs = (name :> v) @@ [k \in DOMAIN e.attrs \ {name} |-> e.attrs[k]]]
RemoveAttr(e, name) == [e EXCEPT !.attrs = [k \in DOMAIN e.attrs \ {name} |-> e.attrs[k]]]

\* goquery.NewDocumentFromReader: html.Parse gives every document a head
NewDocumentFromReader(html) ==
    IF \E i \in 1..Len(html) : html[i].tag = "head" THEN html
    ELSE <<El("head", NoAttrs, ""), El("/head", NoAttrs, "")>> \o html


inlineStylesheet(e, baseURL, opts, web) ==
    IF ~(e.tag = "link" /\ HasAttr(e, "rel") /\ e.attrs.rel = "stylesheet") THEN e
    ELSE IF ~HasAttr(e, "href") \/ e.attrs.href = "" THEN e
    ELSE Only({IF cssURL = "" THEN e
               ELSE Only({IF css.err # "" THEN e
                          ELSE El("style", NoAttrs, inlineCSSURLs(css.content, cssURL, opts, web)) :
                          css \in {fetchResource(cssURL, opts.MaxResourceSize, web)}}) :
               cssURL \in {resolveURL(baseURL, e.attrs.href)}})

inlineScript(e, baseURL, opts, web) ==
    IF ~(e.tag = "script" /\ HasAttr(e, "src")) \/ e.attrs.src = "" THEN e
    ELSE Only({IF jsURL = "" THEN e
               ELSE Only({IF js.err # "" THEN e ELSE [RemoveAttr(e, "src") EXCEPT !.text = js.content] :
                          js \in {fetchResource(jsURL, opts.MaxResourceSize, web)}}) :
               jsURL \in {resolveURL(baseURL, e.attrs.src)}})

\* inlineImage, did it take the src off an image it could not fetch
inlineImageDroppingFailed(e, baseURL, opts, web) ==
    IF ~(e.tag = "img" /\ HasAttr(e, "src")) \/ e.attrs.src = "" THEN e
    ELSE IF HasPrefix(e.attrs.src, "data:") THEN e
    ELSE Only({IF imgURL = "" THEN e
               ELSE Only({IF dataURI.err # "" THEN RemoveAttr(e, "src") ELSE SetAttr(e, "src", dataURI.uri) :
                          dataURI \in {fetchAsDataURI(imgURL, opts.MaxResourceSize, web)}}) :
               imgURL \in {resolveURL(baseURL, e.attrs.src)}})

inlineImage(e, baseURL, opts, web) ==
    IF ~(e.tag = "img" /\ HasAttr(e, "src")) \/ e.attrs.src = "" THEN e
    ELSE IF HasPrefix(e.attrs.src, "data:") THEN e
    ELSE Only({IF imgURL = "" THEN e
               ELSE Only({IF dataURI.err # "" THEN e ELSE SetAttr(e, "src", dataURI.uri) :
                          dataURI \in {fetchAsDataURI(imgURL, opts.MaxResourceSize, web)}}) :
               imgURL \in {resolveURL(baseURL, e.attrs.src)}})

removeSrcset(e) ==
    IF e.tag \in {"img", "source"} /\ HasAttr(e, "srcset") THEN RemoveAttr(e, "srcset") ELSE e

inlineBackgroundImage(e, opts, web) ==
    IF HasAttr(e, "style") /\ Contains(e.attrs.style, "url(")
    THEN SetAttr(e, "style", inlineCSSURLs(e.attrs.style, opts.BaseURL, opts, web))
    ELSE e

\* the elements of a selection, each visited once, in document order
Each(f) == f \o <<>>

inlineStylesheets(doc, baseURL, opts, web) ==
    Each([i \in 1..Len(doc) |-> inlineStylesheet(doc[i], baseURL, opts, web)])
inlineScripts(doc, baseURL, opts, web) ==
    Each([i \in 1..Len(doc) |-> inlineScript(doc[i], baseURL, opts, web)])
inlineImages(doc, baseURL, opts, web) ==
    Each([i \in 1..Len(doc) |->
            Only({removeSrcset(e) : e \in {inlineImage(doc[i], baseURL, opts, web)}})])
inlineBackgroundImages(doc, opts, web) ==
    Each([i \in 1..Len(doc) |-> inlineBackgroundImage(doc[i], opts, web)])

\* a <base> as first child of the head, whether the document has one or not
addBaseTagAlways(doc, baseURL) ==
    LET head == CHOOSE i \in 1..Len(doc) : doc[i].tag = "head" /\ \A j \in 1..(i - 1) : doc[j].tag # "head"
    IN  IF \E i \in 1..Len(doc) : doc[i].tag = "head"
        THEN SubSeq(doc, 1, head) \o <<El("base", [href |-> URLString(baseURL)], "")>>
             \o SubSeq(doc, head + 1, Len(doc))
        ELSE doc

\* a <base> as first child of the head, unless the document has one
addBaseTag(doc, baseURL) ==
    LET head == CHOOSE i \in 1..Len(doc) : doc[i].tag = "head" /\ \A j \in 1..(i - 1) : doc[j].tag # "head"
    IN  IF (\E i \in 1..Len(doc) : doc[i].tag = "head") /\ ~(\E i \in 1..Len(doc) : doc[i].tag = "base")
        THEN SubSeq(doc, 1, head) \o <<El("base", [href |-> URLString(baseURL)], "")>>
             \o SubSeq(doc, head + 1, Len(doc))
        ELSE doc

\* the passes of InlineResources, did the image pass run whatever the
\* options say
inlinePassesAlwaysImages(doc0, baseURL, opts, web) ==
    Only({Only({Only({Only({addBaseTag(doc4, baseURL) :
        doc4 \in {inlineBackgroundImages(doc3, opts, web)}}) :
        doc3 \in {inlineImages(doc2, baseURL, opts, web)}}) :
        doc2 \in {IF opts.InlineJS THEN inlineScripts(doc1, baseURL, opts, web) ELSE doc1}}) :
        doc1 \in {IF opts.InlineCSS THEN inlineStylesheets(doc0, baseURL, opts, web) ELSE doc0}})

\* the passes of InlineResources over the parsed document, in their order
inlinePasses(doc0, baseURL, opts, web) ==
    Only({Only({Only({Only({addBaseTag(doc4, baseURL) :
        doc4 \in {inlineBackgroundImages(doc3, opts, web)}}) :
        doc3 \in {IF opts.InlineImages THEN inlineImages(doc2, baseURL, opts, web) ELSE doc2}}) :
        doc2 \in {IF opts.InlineJS THEN inlineScripts(doc1, baseURL, opts, web) ELSE doc1}}) :
        doc1 \in {IF opts.InlineCSS THEN inlineStylesheets(doc0, baseURL, opts, web) ELSE doc0}})

InlineResources(html, opts, web) ==
    Only({IF baseURL.err THEN [html |-> <<>>, err |-> "invalid base URL: parse " \o opts.BaseURL]
          ELSE [html |-> inlinePasses(doc, baseURL, opts, web), err |-> ""] :
          doc \in {NewDocumentFromReader(html)}, baseURL \in {urlParse(opts.BaseURL)}})

\* ArchiveAndPersist after ArchiveBookmark returned the error res.err, and
\* the same saving the failure with a completion time
persistFailureStamped(rows, b, attemptedAt, res) ==
    Only({[rows |-> saved.rows, id |-> b.ID, emits |-> saved.emits, err |-> res.err,
           calls |-> <<[fn |-> "ArchiveBookmark", url |-> b.URL, res |-> res],
                       [fn |-> "SaveArchiveResult", err |-> saved.err]>>] :
          saved \in {SaveArchiveResult(rows, b.ID, attemptedAt, Some(attemptedAt), ArchiveStatusError,
                                       res.err, "", <<>>)}})

persistFailure(rows, b, attemptedAt, res) ==
    Only({[rows |-> saved.rows, id |-> b.ID, emits |-> saved.emits,
           err |-> IF saved.err # ""
                   THEN "archive failed (" \o res.err \o ") and saving failure failed (" \o saved.err \o ")"
                   ELSE res.err,
           calls |-> <<[fn |-> "ArchiveBookmark", url |-> b.URL, res |-> res],
                       [fn |-> "SaveArchiveResult", err |-> saved.err]>>] :
          saved \in {SaveArchiveResult(rows, b.ID, attemptedAt, NULL, ArchiveStatusError, res.err, "", <<>>)}})

\* ArchiveAndPersist after ArchiveBookmark returned the page res, at time t:
\* the inliner runs with the final URL as base and its output is saved, the
\* captured HTML when it fails; and the same without that fallback
persistSuccessWithoutFallback(rows, b, attemptedAt, res, t, web) ==
    Only({Only({[rows |-> saved.rows, id |-> b.ID, emits |-> saved.emits, err |-> saved.err,
                 calls |-> <<[fn |-> "ArchiveBookmark", url |-> b.URL, res |-> res],
                             [fn |-> "InlineResources", html |-> res.HTML,
                              opts |-> DefaultInlineOptions(res.FinalURL), res |-> inlined],
                             [fn |-> "SaveArchiveResult", err |-> saved.err]>>] :
                saved \in {SaveArchiveResult(rows, b.ID, attemptedAt, Some(t), ArchiveStatusOK, "",
                                             res.FinalURL, inlined.html)}}) :
          inlined \in {InlineResources(res.HTML, DefaultInlineOptions(res.FinalURL), web)}})

persistSuccess(rows, b, attemptedAt, res, t, web) ==
    Only({Only({[rows |-> saved.rows, id |-> b.ID, emits |-> saved.emits, err |-> saved.err,
                 calls |-> <<[fn |-> "ArchiveBookmark", url |-> b.URL, res |-> res],
                             [fn |-> "InlineResources", html |-> res.HTML,
                              opts |-> DefaultInlineOptions(res.FinalURL), res |-> inlined],
                             [fn |-> "SaveArchiveResult", err |-> saved.err]>>] :
                saved \in {SaveArchiveResult(rows, b.ID, attemptedAt, Some(t), ArchiveStatusOK, "",
                                             res.FinalURL,
                                             IF inlined.err # "" THEN res.HTML ELSE inlined.html)}}) :
          inlined \in {InlineResources(res.HTML, DefaultInlineOptions(res.FinalURL), web)}})

\* ArchiveAndPersist from the answer of ArchiveBookmark on, at time t: the
\* table after it, the error it returns, and the calls it made
ArchiveAndPersist(rows, b, attemptedAt, res, t, web) ==
    IF res.err # "" THEN persistFailure(rows, b, attemptedAt, res)
    ELSE persistSuccess(rows, b, attemptedAt, res, t, web)

NoRet == [op |-> "", id |-> 0, err |-> "", emits |-> <<>>, calls |-> <<>>]
NoAttempt == [pc |-> "idle", b |-> NoBookmark, attemptedAt |-> 0]
NoCall == [pc |-> "idle", id |-> 0, b |-> NoBookmark]
NoneInProgress == [UpdateBookmark |-> NoCall, DeleteBookmark |-> NoCall]

\* inlineCSSURLs is not running
NoScan == [pc |-> "idle", n |-> 0]

\* the startup goroutine before the serve command runs
NotStarted == [pc |-> "off", bookmarks |-> <<>>, i |-> 0, queued |-> 0]

\* what a method of DB leaves in ret
Returned(op, r) == [op |-> op, id |-> r.id, err |-> r.err, emits |-> r.emits, calls |-> <<>>]

(***************************************************************************)
(* The state after construction: the override off, no call in progress, an *)
(* empty table, no listener                                                *)
(***************************************************************************)
Init ==
    /\ AllowInternalURLsForTesting = FALSE
    /\ guard = NoGuardCall
    /\ fetch = NoFetch
    /\ bookmarks = <<>>
    /\ lastInsertId = 0
    /\ eventListeners = [k \in EventKinds |-> <<>>]
    /\ now = 0
    /\ ret = NoRet
    /\ attempt = NoAttempt
    /\ inProgress = NoneInProgress
    /\ numWorkers = 0
    /\ workQueue = <<>>
    /\ sendq = <<>>
    /\ workers = <<>>
    /\ startup = NotStarted
    /\ scan = NoScan

(***************************************************************************)
(* The guard on its own                                                    *)
(***************************************************************************)
\* a test sets or clears the override (TestMain, TestIsInternalURL)
SetAllowInternalURLsForTesting ==
    /\ fetch.pc = "idle"
    /\ AllowInternalURLsForTesting' = ~AllowInternalURLsForTesting
    /\ UNCHANGED <<guard, fetch, scan, dbVars>>

\* one call isInternalURL(in.url)
CallIsInternalURL ==
    \E in \in GuardInputs :
        /\ ~guard.called
        /\ guard' = [url |-> in.url, class |-> in.class, called |-> TRUE,
                     override |-> AllowInternalURLsForTesting,
                     internal |-> isInternalURL(in.url)]
        /\ UNCHANGED <<AllowInternalURLsForTesting, fetch, scan, dbVars>>

\* the caller has taken the result
ReturnIsInternalURL ==
    /\ guard.called
    /\ guard' = NoGuardCall
    /\ UNCHANGED <<AllowInternalURLsForTesting, fetch, scan, dbVars>>

NextGuard == SetAllowInternalURLsForTesting \/ CallIsInternalURL \/ ReturnIsInternalURL

SpecGuard == Init /\ [][NextGuard]_vars

(***************************************************************************)
(* fetchURL on its own                                                     *)
(***************************************************************************)
FetchURLCall ==
    \E urlStr \in FetchURLs, maxSize \in MaxSizes :
        /\ fetch.pc = "idle"
        /\ fetch' = fetchURLBegin(urlStr, maxSize)
        /\ UNCHANGED <<AllowInternalURLsForTesting, guard, scan, dbVars>>

ClientSend ==
    \E resp \in ServerResponses :
        /\ fetch.pc = "sending"
        /\ fetch' = clientRoundTrip(fetch, resp)
        /\ UNCHANGED <<AllowInternalURLsForTesting, guard, scan, dbVars>>

FetchURLReturn ==
    /\ fetch.pc = "done"
    /\ fetch' = NoFetch
    /\ UNCHANGED <<AllowInternalURLsForTesting, guard, scan, dbVars>>

NextFetch == SetAllowInternalURLsForTesting \/ FetchURLCall \/ ClientSend \/ FetchURLReturn

SpecFetch == Init /\ [][NextFetch]_vars

(***************************************************************************)
(* The store and the archive attempts of one process: calls of the methods *)
(* of DB and of ArchiveAndPersist, while the clock advances                *)
(***************************************************************************)
AddURLs == {"https://example.com", "", "ftp://example.com/file", "http:///nohost"}
Titles == {"Example"}
IDs == 1..MaxBookmarks

CaptureErrors == {"context deadline exceeded"}

CapturedPage == <<El("img", [src |-> "logo.gif", srcset |-> "logo2x.gif 2x"], "")>>

\* what ArchiveBookmark may return on success: the last has a location
\* url.Parse rejects
CaptureResults ==
    {[err |-> "", FinalURL |-> "https://example.com/a/page.html", Title |-> "Example", HTML |-> CapturedPage],
     [err |-> "", FinalURL |-> "https://example.com/100%", Title |-> "", HTML |-> CapturedPage]}

\* what ArchiveBookmark returns with an error
CaptureFailures == {[err |-> e, FinalURL |-> "", Title |-> "", HTML |-> <<>>] : e \in CaptureErrors}

\* the networks an archive attempt runs in
ArchiveWebs == {"up", "missing"}

SavedPage == <<El("head", NoAttrs, ""), El("/head", NoAttrs, "")>>

\* the ids a new row may get: one more than the highest id in the table, or
\* one more than the highest id ever given
NewIDs == {lastInsertId + 1} \cup {n + 1 : n \in {m \in DOMAIN bookmarks : \A k \in DOMAIN bookmarks : m >= k}}

Tick ==
    /\ now < MaxTime
    /\ now' = now + 1
    /\ UNCHANGED <<netVars, scan, serveVars, bookmarks, lastInsertId, eventListeners, ret, attempt, inProgress>>

CallAddBookmark ==
    \E url \in AddURLs, title \in Titles, newID \in {n \in NewIDs : n <= MaxBookmarks} :
        \E r \in {AddBookmark(bookmarks, newID, url, title, now)} :
            /\ bookmarks' = r.rows
            /\ lastInsertId' = IF r.id > lastInsertId THEN r.id ELSE lastInsertId
            /\ ret' = Returned("AddBookmark", r)
            /\ UNCHANGED <<netVars, scan, serveVars, eventListeners, now, attempt, inProgress>>

\* UpdateBookmark runs its UPDATE and returns when no row was affected
CallUpdateBookmark ==
    \E id \in IDs, url \in {"not a url"}, title \in {"New Title"} :
        \E r \in {UpdateBookmark(bookmarks, id, url, title)} :
            /\ inProgress.UpdateBookmark.pc = "idle"
            /\ bookmarks' = r.rows
            /\ IF r.err # ""
               THEN ret' = Returned("UpdateBookmark", r) /\ UNCHANGED inProgress
               ELSE /\ inProgress' = [inProgress EXCEPT !.UpdateBookmark = [NoCall EXCEPT !.pc = "updated", !.id = id]]
                    /\ UNCHANGED ret
            /\ UNCHANGED <<netVars, scan, serveVars, lastInsertId, eventListeners, now, attempt>>

\* UpdateBookmark reads the bookmark back, emits and returns
ReturnUpdateBookmark ==
    /\ inProgress.UpdateBookmark.pc = "updated"
    /\ ret' = Returned("UpdateBookmark", UpdateBookmarkReturn(bookmarks, inProgress.UpdateBookmark.id))
    /\ inProgress' = [inProgress EXCEPT !.UpdateBookmark = NoCall]
    /\ UNCHANGED <<netVars, scan, serveVars, bookmarks, lastInsertId, eventListeners, now, attempt>>

\* DeleteBookmark reads the bookmark it is to delete
CallDeleteBookmark ==
    \E id \in IDs :
        /\ inProgress.DeleteBookmark.pc = "idle"
        /\ inProgress' = [inProgress EXCEPT !.DeleteBookmark =
                              [pc |-> "fetched", id |-> id, b |-> GetBookmark(bookmarks, id).b]]
        /\ UNCHANGED <<netVars, scan, serveVars, bookmarks, lastInsertId, eventListeners, now, ret, attempt>>

\* DeleteBookmark runs its DELETE, emits and returns
ReturnDeleteBookmark ==
    /\ inProgress.DeleteBookmark.pc = "fetched"
    /\ \E r \in {DeleteBookmark(bookmarks, inProgress.DeleteBookmark.id, inProgress.DeleteBookmark.b)} :
        /\ bookmarks' = r.rows
        /\ ret' = Returned("DeleteBookmark", r)
        /\ inProgress' = [inProgress EXCEPT !.DeleteBookmark = NoCall]
        /\ UNCHANGED <<netVars, scan, serveVars, lastInsertId, eventListeners, now, attempt>>

\* UpdateBookmark from call to return while no other call runs
RunUpdateBookmark ==
    \E id \in IDs, url \in {"not a url"}, title \in {"New Title"} :
        \E r \in {UpdateBookmark(bookmarks, id, url, title)} :
            /\ bookmarks' = r.rows
            /\ ret' = Returned("UpdateBookmark", IF r.err # "" THEN r ELSE UpdateBookmarkReturn(r.rows, id))
            /\ UNCHANGED <<netVars, scan, serveVars, lastInsertId, eventListeners, now, attempt, inProgress>>

\* DeleteBookmark from call to return while no other call runs
RunDeleteBookmark ==
    \E id \in IDs :
        \E r \in {DeleteBookmark(bookmarks, id, GetBookmark(bookmarks, id).b)} :
            /\ bookmarks' = r.rows
            /\ ret' = Returned("DeleteBookmark", r)
            /\ UNCHANGED <<netVars, scan, serveVars, lastInsertId, eventListeners, now, attempt, inProgress>>

\* the two ways every caller saves a result: a success with its completion
\* time, a failure without one
CallSaveArchiveResult ==
    \E id \in IDs, ok \in BOOLEAN :
        \E r \in {IF ok THEN SaveArchiveResult(bookmarks, id, now, Some(now), ArchiveStatusOK, "",
                                              "https://archived.com", SavedPage)
                  ELSE SaveArchiveResult(bookmarks, id, now, NULL, ArchiveStatusError,
                                         "connection timeout", "", <<>>)} :
            /\ bookmarks' = r.rows
            /\ ret' = Returned("SaveArchiveResult", r)
            /\ UNCHANGED <<netVars, scan, serveVars, lastInsertId, eventListeners, now, attempt, inProgress>>

CallClearBookmarkArchive ==
    \E id \in IDs :
        \E r \in {ClearBookmarkArchive(bookmarks, id)} :
            /\ bookmarks' = r.rows
            /\ ret' = Returned("ClearBookmarkArchive", r)
            /\ UNCHANGED <<netVars, scan, serveVars, lastInsertId, eventListeners, now, attempt, inProgress>>

CallQueueBookmarkForArchive ==
    \E id \in IDs :
        \E r \in {QueueBookmarkForArchive(bookmarks, id)} :
            /\ bookmarks' = r.rows
            /\ ret' = Returned("QueueBookmarkForArchive", r)
            /\ UNCHANGED <<netVars, scan, serveVars, lastInsertId, eventListeners, now, attempt, inProgress>>

\* the kinds the server and the archive command listen to
ListenedKinds == {"bookmark_created", "archive_cleared"}

CallRegisterEventListener ==
    \E kind \in ListenedKinds :
        LET registered == Len(eventListeners["bookmark_created"]) + Len(eventListeners["bookmark_deleted"])
                          + Len(eventListeners["bookmark_updated"]) + Len(eventListeners["archive_result_saved"])
                          + Len(eventListeners["archive_cleared"])
        IN  /\ registered < MaxListeners
            /\ eventListeners' = [eventListeners EXCEPT ![kind] = Append(@, registered + 1)]
            /\ UNCHANGED <<netVars, scan, serveVars, bookmarks, lastInsertId, now, ret, attempt, inProgress>>

\* a function that returns an error is registered
CallRegisterFailingListener ==
    \E kind \in ListenedKinds :
        LET registered == Len(eventListeners["bookmark_created"]) + Len(eventListeners["bookmark_deleted"])
                          + Len(eventListeners["bookmark_updated"]) + Len(eventListeners["archive_result_saved"])
                          + Len(eventListeners["archive_cleared"])
        IN  /\ registered < MaxListeners
            /\ eventListeners' = [eventListeners EXCEPT ![kind] = Append(@, 0 - (registered + 1))]
            /\ UNCHANGED <<netVars, scan, serveVars, bookmarks, lastInsertId, now, ret, attempt, inProgress>>

\* ArchiveAndPersist is called with a bookmark read from the table, takes
\* the time and starts the capture
CallArchiveAndPersist ==
    \E id \in DOMAIN bookmarks :
        /\ attempt.pc = "idle"
        /\ attempt' = [NoAttempt EXCEPT !.pc = "capturing", !.b = GetBookmark(bookmarks, id).b,
                                        !.attemptedAt = now]
        /\ UNCHANGED <<netVars, scan, serveVars, bookmarks, lastInsertId, eventListeners, now, ret, inProgress>>

\* ArchiveBookmark returns, and ArchiveAndPersist runs to its end
ReturnArchiveAndPersist ==
    /\ attempt.pc = "capturing"
    /\ \E res \in CaptureResults \cup CaptureFailures, web \in ArchiveWebs :
        \E r \in {ArchiveAndPersist(bookmarks, attempt.b, attempt.attemptedAt, res, now, web)} :
            /\ bookmarks' = r.rows
            /\ ret' = [op |-> "ArchiveAndPersist", id |-> r.id, err |-> r.err, emits |-> r.emits,
                       calls |-> r.calls]
            /\ attempt' = NoAttempt
            /\ UNCHANGED <<netVars, scan, serveVars, lastInsertId, eventListeners, now, inProgress>>

\* one process making archive attempts on the bookmarks of a small table
MaxArchived == 1        \* rows in the table while attempts are made

NextArchive ==
    \/ Tick
    \/ (Cardinality(DOMAIN bookmarks) < MaxArchived /\ CallAddBookmark)
    \/ RunDeleteBookmark
    \/ CallSaveArchiveResult
    \/ CallClearBookmarkArchive
    \/ CallQueueBookmarkForArchive
    \/ CallArchiveAndPersist
    \/ ReturnArchiveAndPersist

SpecArchive == Init /\ [][NextArchive]_vars

\* the methods of DB called one after the other while the clock advances
NextStore ==
    \/ Tick
    \/ CallAddBookmark
    \/ RunDeleteBookmark
    \/ CallSaveArchiveResult
    \/ CallClearBookmarkArchive
    \/ CallQueueBookmarkForArchive

SpecStore == Init /\ [][NextStore]_vars

\* the mutating methods of DB called one after the other with listeners
\* registered
NextListeners ==
    \/ CallRegisterEventListener
    \/ CallAddBookmark
    \/ RunUpdateBookmark
    \/ RunDeleteBookmark
    \/ CallSaveArchiveResult
    \/ CallClearBookmarkArchive

SpecListeners == Init /\ [][NextListeners]_vars

\* mutating methods of DB called one after the other with listeners
\* registered of which some return an error
NextListenerErrors ==
    \/ CallRegisterEventListener
    \/ CallRegisterFailingListener
    \/ CallAddBookmark
    \/ RunDeleteBookmark
    \/ CallClearBookmarkArchive

SpecListenerErrors == Init /\ [][NextListenerErrors]_vars

\* the mutating methods of DB called by goroutines of their own: between
\* the two statements of UpdateBookmark and of DeleteBookmark other calls run
NextEvents ==
    \/ CallAddBookmark
    \/ CallUpdateBookmark
    \/ ReturnUpdateBookmark
    \/ CallDeleteBookmark
    \/ ReturnDeleteBookmark
    \/ CallSaveArchiveResult
    \/ CallClearBookmarkArchive

SpecEvents == Init /\ [][NextEvents]_vars

(***************************************************************************)
(* cmd: the serve command.  A buffered channel of bookmarks, fed by the    *)
(* listeners of the created and the cleared event and by the startup       *)
(* goroutine, drained by the archive workers                               *)
(***************************************************************************)
\* make(chan db.Bookmark, numWorkers*10)
QueueFactor == 10

\* the values of --archive-workers the command is run with
NumWorkers == {0, 1, 2}

MaxHandlers == 1        \* requests the web server handles at a time

Capacity(n) == n * QueueFactor

\* a send that takes whatever it is given, full or not
chanSendUnbounded(q, capacity, b) == [ok |-> TRUE, q |-> Append(q, b)]

\* workQueue <- b as a case of a select: it goes ahead when the buffer has
\* room, and the goroutine blocks otherwise
chanSend(q, capacity, b) ==
    IF Len(q) < capacity THEN [ok |-> TRUE, q |-> Append(q, b)]
    ELSE [ok |-> FALSE, q |-> q]

\* a receive that hands the worker no bookmark
chanRecvLosing(q, blocked) ==
    [b |-> NoBookmark, q |-> Tail(q) \o (IF blocked = <<>> THEN <<>> ELSE <<Head(blocked).b>>),
     sent |-> IF blocked = <<>> THEN <<>> ELSE <<Head(blocked)>>,
     sendq |-> IF blocked = <<>> THEN <<>> ELSE Tail(blocked)]

\* a receive that leaves what it received in the buffer
chanRecvKeeping(q, blocked) ==
    [b |-> Head(q), q |-> q \o (IF blocked = <<>> THEN <<>> ELSE <<Head(blocked).b>>),
     sent |-> IF blocked = <<>> THEN <<>> ELSE <<Head(blocked)>>,
     sendq |-> IF blocked = <<>> THEN <<>> ELSE Tail(blocked)]

\* bookmark := <-workQueue on a buffer that is not empty: the oldest element
\* is taken, and the value of the goroutine that blocked first in a send
\* goes into the room this makes, which completes that send
chanRecv(q, blocked) ==
    [b |-> Head(q), q |-> Tail(q) \o (IF blocked = <<>> THEN <<>> ELSE <<Head(blocked).b>>),
     sent |-> IF blocked = <<>> THEN <<>> ELSE <<Head(blocked)>>,
     sendq |-> IF blocked = <<>> THEN <<>> ELSE Tail(blocked)]

\* a goroutine blocked in the select of queueBookmark or of the startup
\* loop: who it is, what it sends, and what its caller returns afterwards
Sender(from, b, r) == [from |-> from, b |-> b, r |-> r]

WorkerIdle == [pc |-> "idle", b |-> NoBookmark, attemptedAt |-> 0]

\* the listeners the command registers: the first queues the bookmark of a
\* created event, the second reads the bookmark of a cleared event back
\* and queues it
ServeListeners ==
    [k \in EventKinds |-> IF k = "bookmark_created" THEN <<1>>
                          ELSE IF k = "archive_cleared" THEN <<2>> ELSE <<>>]

\* the startup goroutine after its send of bookmark i went through
\* a send of the startup loop went through, and was not counted
startupSentUncounted(st) ==
    [st EXCEPT !.i = @ + 1,
               !.pc = IF st.i >= Len(st.bookmarks) THEN "done" ELSE "queuing"]

\* a send of the startup loop went through: queued++ and the next bookmark
startupSent(st) ==
    [st EXCEPT !.queued = @ + 1, !.i = @ + 1,
               !.pc = IF st.i >= Len(st.bookmarks) THEN "done" ELSE "queuing"]

\* the serve command runs: the channel is made, the listeners registered,
\* the workers and the startup goroutine started
Serve ==
    /\ startup.pc = "off"
    /\ \E n \in NumWorkers :
        /\ numWorkers' = n
        /\ workers' = [w \in 1..n |-> WorkerIdle]
    /\ workQueue' = <<>>
    /\ sendq' = <<>>
    /\ eventListeners' = ServeListeners
    /\ startup' = [NotStarted EXCEPT !.pc = "sleeping"]
    /\ UNCHANGED <<netVars, scan, bookmarks, lastInsertId, now, ret, attempt, inProgress>>

\* queueBookmark in the listener of a method that returns r: the bookmark
\* is queued and the method returns, or the handler blocks in the select
queueBookmark(op, b, r) ==
    \E s \in {chanSend(workQueue, Capacity(numWorkers), b)} :
        /\ workQueue' = s.q
        /\ IF s.ok THEN ret' = Returned(op, r) /\ UNCHANGED sendq
           ELSE sendq' = Append(sendq, Sender(op, b, r)) /\ UNCHANGED ret

HandlersBlocked == Cardinality({i \in 1..Len(sendq) : sendq[i].from # "startup"})

\* POST /bookmarks: createBookmark calls AddBookmark, whose created event
\* goes to the first listener
ServeAddBookmark ==
    /\ startup.pc # "off"
    /\ HandlersBlocked < MaxHandlers
    /\ \E url \in AddURLs, title \in Titles, newID \in {n \in NewIDs : n <= MaxBookmarks} :
        \E r \in {AddBookmark(bookmarks, newID, url, title, now)} :
            /\ bookmarks' = r.rows
            /\ lastInsertId' = IF r.id > lastInsertId THEN r.id ELSE lastInsertId
            /\ IF r.err # "" THEN ret' = Returned("AddBookmark", r) /\ UNCHANGED <<workQueue, sendq>>
               ELSE queueBookmark("AddBookmark", r.emits[1].event.Bookmark, r)
    /\ UNCHANGED <<netVars, scan, eventListeners, now, attempt, inProgress, numWorkers, workers, startup>>

\* POST /archives/{id}/refetch: refetchArchive finds the bookmark and calls
\* ClearBookmarkArchive, whose cleared event goes to the second listener
ServeClearBookmarkArchive ==
    /\ startup.pc # "off"
    /\ HandlersBlocked < MaxHandlers
    /\ \E id \in IDs :
        \E r \in {ClearBookmarkArchive(bookmarks, id)} :
            /\ GetBookmark(bookmarks, id).err = ""
            /\ bookmarks' = r.rows
            /\ IF r.err # "" THEN ret' = Returned("ClearBookmarkArchive", r) /\ UNCHANGED <<workQueue, sendq>>
               ELSE queueBookmark("ClearBookmarkArchive", GetBookmark(r.rows, id).b, r)
    /\ UNCHANGED <<netVars, scan, lastInsertId, eventListeners, now, attempt, inProgress, numWorkers, workers,
                   startup>>

\* case <-time.After(5 * time.Second): a blocked send is given up.  A
\* handler logs the warning and its method returns; the startup goroutine
\* logs where it stopped and returns
QueueTimeout ==
    \E i \in 1..Len(sendq) :
        /\ sendq' = SubSeq(sendq, 1, i - 1) \o SubSeq(sendq, i + 1, Len(sendq))
        /\ IF sendq[i].from = "startup"
           THEN startup' = [startup EXCEPT !.pc = "done"] /\ UNCHANGED ret
           ELSE ret' = Returned(sendq[i].from, sendq[i].r) /\ UNCHANGED startup
        /\ UNCHANGED <<netVars, scan, bookmarks, lastInsertId, eventListeners, now, attempt, inProgress, numWorkers,
                       workQueue, workers>>

\* for bookmark := range workQueue: a waiting worker receives a bookmark
\* and ArchiveAndPersist takes the time of the attempt
WorkerReceive ==
    \E w \in DOMAIN workers :
        /\ workers[w].pc = "idle"
        /\ workQueue # <<>>
        /\ \E rc \in {chanRecv(workQueue, sendq)} :
            /\ workers' = [workers EXCEPT ![w] = [pc |-> "archiving", b |-> rc.b, attemptedAt |-> now]]
            /\ workQueue' = rc.q
            /\ sendq' = rc.sendq
            /\ IF rc.sent = <<>> THEN UNCHANGED <<ret, startup>>
               ELSE IF rc.sent[1].from = "startup" THEN startup' = startupSent(startup) /\ UNCHANGED ret
               ELSE ret' = Returned(rc.sent[1].from, rc.sent[1].r) /\ UNCHANGED startup
        /\ UNCHANGED <<netVars, scan, bookmarks, lastInsertId, eventListeners, now, attempt, inProgress, numWorkers>>

\* the end of a job, did it end the jobs of the other workers with it
jobDoneForAll(ws, w) == [v \in DOMAIN ws |-> WorkerIdle]

\* the end of a job, whose context is its own: the worker that ran it goes
\* back to the channel, the others go on
jobDone(ws, w) == [ws EXCEPT ![w] = WorkerIdle]

\* what ArchiveBookmark returns to a worker
WorkerCaptures == {CHOOSE res \in CaptureResults : res.Title # ""} \cup CaptureFailures

\* ArchiveBookmark returns to the worker w, ArchiveAndPersist runs to its
\* end, the worker logs the outcome and goes back to the channel
WorkerFinishes(w) ==
        /\ w \in DOMAIN workers
        /\ workers[w].pc = "archiving"
        /\ workers' = jobDone(workers, w)
        /\ UNCHANGED <<netVars, scan, lastInsertId, eventListeners, now, attempt, inProgress, numWorkers, workQueue,
                       sendq, startup>>
        /\ \E res \in WorkerCaptures, web \in ArchiveWebs :
            \E r \in {ArchiveAndPersist(bookmarks, workers[w].b, workers[w].attemptedAt, res, now, web)} :
                /\ bookmarks' = r.rows
                /\ ret' = [op |-> "ArchiveAndPersist", id |-> r.id, err |-> r.err, emits |-> r.emits,
                           calls |-> r.calls]

WorkerFinish == \E w \in DOMAIN workers : WorkerFinishes(w)

\* the startup goroutine wakes up and lists the bookmarks to archive
StartupList ==
    /\ startup.pc = "sleeping"
    /\ \E list \in ListBookmarksToArchive(bookmarks, 0) :
        startup' = [startup EXCEPT !.bookmarks = list, !.i = 1,
                                   !.pc = IF list = <<>> THEN "done" ELSE "queuing"]
    /\ UNCHANGED <<netVars, scan, bookmarks, lastInsertId, eventListeners, now, ret, attempt, inProgress, numWorkers,
                   workQueue, sendq, workers>>

\* the select of the startup loop for the next bookmark of its list
StartupSend ==
    /\ startup.pc = "queuing"
    /\ \E s \in {chanSend(workQueue, Capacity(numWorkers), startup.bookmarks[startup.i])} :
        /\ workQueue' = s.q
        /\ IF s.ok THEN startup' = startupSent(startup) /\ UNCHANGED sendq
           ELSE /\ startup' = [startup EXCEPT !.pc = "blocked"]
                /\ sendq' = Append(sendq, Sender("startup", startup.bookmarks[startup.i], Result(<<>>, 0, "", <<>>)))
    /\ UNCHANGED <<netVars, scan, bookmarks, lastInsertId, eventListeners, now, ret, attempt, inProgress, numWorkers,
                   workers>>

\* the server with its workers, a table of at most MaxArchived rows and
\* requests coming in
NextServe ==
    \/ Serve
    \/ (Cardinality(DOMAIN bookmarks) < MaxArchived /\ ServeAddBookmark)
    \/ ServeClearBookmarkArchive
    \/ QueueTimeout
    \/ WorkerReceive
    \/ WorkerFinish
    \/ StartupList
    \/ StartupSend

SpecServe == Init /\ [][NextServe]_vars

\* the server started on a table written by earlier runs, no request
\* coming in
NextStartup ==
    \/ (startup.pc = "off" /\ CallAddBookmark)
    \/ (startup.pc = "off" /\ CallSaveArchiveResult)
    \/ Serve
    \/ QueueTimeout
    \/ WorkerReceive
    \/ WorkerFinish
    \/ StartupList
    \/ StartupSend

SpecStartup == Init /\ [][NextStartup]_vars

\* the return of the worker w from its job, as the worker itself sees it:
\* the steps of WorkerFinishes(w) are the steps that change workers this
\* way, and WorkerFinishes(w) can be taken whenever w is archiving
WorkerReturns(w) ==
    /\ w \in DOMAIN workers
    /\ workers[w].pc = "archiving"
    /\ workers' = jobDone(workers, w)

\* the same, when every capture returns (the capture has a timeout) and a
\* worker waiting at a channel that holds a bookmark receives
SpecStartupFair ==
    /\ Init /\ [][NextStartup]_vars
    /\ WF_vars(WorkerReceive)
    /\ \A w \in NumWorkers \ {0} : WF_workers(WorkerReturns(w))

\* the archiving subsystem at work on a table: the archive methods of the
\* store called on it, then the server started on it with its workers and
\* its startup pass, no request coming in
NextArchiving ==
    \/ (startup.pc = "off" /\ CallAddBookmark)
    \/ (startup.pc = "off" /\ CallSaveArchiveResult)
    \/ (startup.pc = "off" /\ CallClearBookmarkArchive)
    \/ (startup.pc = "off" /\ CallQueueBookmarkForArchive)
    \/ Serve
    \/ QueueTimeout
    \/ WorkerReceive
    \/ WorkerFinish
    \/ StartupList
    \/ StartupSend

SpecArchiving == Init /\ [][NextArchiving]_vars

(***************************************************************************)
(* The inliner called on small documents and stylesheets, in networks     *)
(* that answer, answer in part, or fail                                    *)
(***************************************************************************)
MaxElements == 2        \* tags of a document handed to InlineResources

\* the tags documents are made of: references that fetch, references to
\* internal hosts, a data URI, a style attribute
InlineElements ==
    {El("link", [rel |-> "stylesheet", href |-> "style.css"], ""),
     El("link", [rel |-> "stylesheet", href |-> "http://localhost/admin.css"], ""),
     El("script", [src |-> "app.js"], ""),
     El("img", [src |-> "logo.gif", srcset |-> "logo2x.gif 2x"], ""),
     El("img", [src |-> "http://169.254.169.254/x.gif"], ""),
     El("img", [src |-> "data:image/gif;base64,R0lG"], ""),
     El("div", [style |-> "background:url(bg.gif)"], ""),
     El("head", NoAttrs, ""),
     El("base", [href |-> "https://original.com"], "")}

InlineDocs == UNION {[1..n -> InlineElements] : n \in 1..MaxElements}

\* base URLs: the last is one url.Parse rejects
InlineBases == {"https://example.com/a/page.html", "https://example.com/100%"}

InlineWebs == {"up", "missing", "moved", "noimages", "down", "broken"}

\* InlineResources is called on a document and runs to its end
CallInlineResources ==
    /\ ret = NoRet
    /\ \E html \in InlineDocs, base \in InlineBases, web \in InlineWebs :
        \E r \in {InlineResources(html, DefaultInlineOptions(base), web)} :
            /\ ret' = [op |-> "InlineResources", id |-> 0, err |-> r.err, emits |-> <<>>,
                       calls |-> <<[fn |-> "InlineResources", html |-> html,
                                    opts |-> DefaultInlineOptions(base), web |-> web, res |-> r]>>]
            /\ UNCHANGED <<netVars, scan, serveVars, bookmarks, lastInsertId, eventListeners, now, attempt,
                           inProgress>>

MaxPieces == 2          \* pieces a stylesheet is put together from

\* the pieces of stylesheets: text, references that fetch, quoted and
\* spaced, a data URI, an internal host, references that do not resolve,
\* and a url( that is not closed
CSSPieces ==
    <<"b{}", "url(bg.gif)", "url( 'logo.gif' )", "url(data:image/gif;base64,R0lG)",
      "url(http://localhost/x.gif)", "url()", "url(%zz)", "url(x.gif">>

RECURSIVE Join(_, _)
Join(pieces, n) == IF n > Len(pieces) THEN "" ELSE CSSPieces[pieces[n]] \o Join(pieces, n + 1)

Stylesheets == {Join(pieces, 1) : pieces \in UNION {[1..n -> 1..Len(CSSPieces)] : n \in 0..MaxPieces}}

\* inlineCSSURLs is called on a stylesheet and runs to its end
CallInlineCSSURLs ==
    /\ ret = NoRet
    /\ \E css \in Stylesheets, base \in InlineBases, web \in InlineWebs :
        /\ ret' = [op |-> "inlineCSSURLs", id |-> 0, err |-> "", emits |-> <<>>,
                   calls |-> <<[fn |-> "inlineCSSURLs", css |-> css, baseURLStr |-> base, web |-> web,
                                out |-> inlineCSSURLs(css, base, DefaultInlineOptions(base), web),
                                fetched |-> fetchedURLs(css, base)]>>]
        /\ UNCHANGED <<netVars, scan, serveVars, bookmarks, lastInsertId, eventListeners, now, attempt,
                       inProgress>>

\* the caller has the result and goes on
ReturnInline ==
    /\ ret.op \in {"InlineResources", "inlineCSSURLs"}
    /\ ret' = NoRet
    /\ UNCHANGED <<netVars, scan, serveVars, bookmarks, lastInsertId, eventListeners, now, attempt, inProgress>>

NextInline == CallInlineResources \/ CallInlineCSSURLs \/ ReturnInline

SpecInline == Init /\ [][NextInline]_vars

\* inlineCSSURLs one iteration at a time: the call parses the base and
\* sets remaining and result, each step is one iteration of the loop, and
\* after the break the function returns result
BeginInlineCSSURLs ==
    /\ ret = NoRet
    /\ scan.pc = "idle"
    /\ \E css \in Stylesheets, base \in InlineBases, web \in InlineWebs :
        /\ ret' = [op |-> "inlineCSSURLs.for", id |-> 0, err |-> "", emits |-> <<>>,
                   calls |-> <<[fn |-> "inlineCSSURLs", css |-> css, baseURLStr |-> base, web |-> web,
                                remaining |-> IF urlParse(base).err THEN "" ELSE css,
                                result |-> IF urlParse(base).err THEN css ELSE ""]>>]
        /\ scan' = [pc |-> IF urlParse(base).err THEN "return" ELSE "for", n |-> 0]
    /\ UNCHANGED <<netVars, serveVars, bookmarks, lastInsertId, eventListeners, now, attempt, inProgress>>

IterateInlineCSSURLs ==
    /\ scan.pc = "for"
    /\ \E c \in {ret.calls[1]} :
        \E it \in {inlineCSSURLsIteration(c.remaining, c.result, urlParse(c.baseURLStr),
                                           DefaultInlineOptions(c.baseURLStr).MaxResourceSize, c.web)} :
            /\ ret' = [ret EXCEPT !.calls = <<[c EXCEPT !.remaining = it.remaining, !.result = it.result]>>]
            /\ scan' = [pc |-> it.pc, n |-> scan.n + 1]
    /\ UNCHANGED <<netVars, serveVars, bookmarks, lastInsertId, eventListeners, now, attempt, inProgress>>

ReturnInlineCSSURLs ==
    /\ scan.pc = "return"
    /\ ret' = NoRet
    /\ scan' = NoScan
    /\ UNCHANGED <<netVars, serveVars, bookmarks, lastInsertId, eventListeners, now, attempt, inProgress>>

NextScan == BeginInlineCSSURLs \/ IterateInlineCSSURLs \/ ReturnInlineCSSURLs

\* the loop as its counter sees it: the steps of IterateInlineCSSURLs are
\* the steps that count an iteration, and it can be taken whenever the
\* loop is at its head
Iterates ==
    /\ scan.pc = "for"
    /\ scan' \in {[pc |-> pc, n |-> scan.n + 1] : pc \in {"for", "return"}}

\* the loop is straight-line code of one goroutine, and every fetch it
\* makes returns (the client has a timeout): at its head, it iterates
SpecScan == Init /\ [][NextScan]_vars /\ WF_scan(Iterates)

\* the options a caller may hand to InlineResources: the three switches of
\* InlineOptions in every combination
InlineOptionSets ==
    {[DefaultInlineOptions("https://example.com/a/page.html")
          EXCEPT !.InlineCSS = css, !.InlineJS = js, !.InlineImages = img] :
     css \in BOOLEAN, js \in BOOLEAN, img \in BOOLEAN}

OptionWebs == {"up", "noimages"}

\* InlineResources is called with options of the caller's choice
CallInlineWithOptions ==
    /\ ret = NoRet
    /\ \E html \in InlineDocs, opts \in InlineOptionSets, web \in OptionWebs :
        \E r \in {InlineResources(html, opts, web)} :
            /\ ret' = [op |-> "InlineResources", id |-> 0, err |-> r.err, emits |-> <<>>,
                       calls |-> <<[fn |-> "InlineResources", html |-> html, opts |-> opts,
                                    web |-> web, res |-> r]>>]
            /\ UNCHANGED <<netVars, scan, serveVars, bookmarks, lastInsertId, eventListeners, now, attempt,
                           inProgress>>

NextOptions == CallInlineWithOptions \/ ReturnInline

SpecOptions == Init /\ [][NextOptions]_vars

(***************************************************************************)
(* Properties of fetchURL (SpecFetch) and of the guard (SpecGuard)         *)
(***************************************************************************)
\* C1: with the override off, a fetch of a URL the guard classifies as
\* internal ends at once with an error that says "blocked", and no request
\* is ever sent for it
C1_BlockedFetchSendsNothing ==
    (~AllowInternalURLsForTesting /\ fetch.pc # "idle" /\ blocksURL(fetch.urlStr))
        => /\ fetch.pc = "done"
           /\ Contains(fetch.err, "blocked")
           /\ fetch.requests = {}

\* a fetch of the metadata endpoint has returned blocked
C1_BlockedFetchReturned ==
    /\ ~AllowInternalURLsForTesting
    /\ fetch.pc = "done"
    /\ fetch.urlStr = "http://169.254.169.254/"
    /\ Contains(fetch.err, "blocked")
    /\ fetch.requests = {}

\* the kinds of host C2 names as blocked
NamedInternalClasses ==
    {"unparsable", "emptyhost", "localhost", "loopback", "rfc1918", "linklocal", "unspecified", "suffix"}

C3_NoRequestToInternalHost ==
    ~AllowInternalURLsForTesting => \A r \in fetch.requests : ~blocksURL(r)

(***************************************************************************)
(* Properties of the archive attempt and of the store (SpecArchive,        *)
(* SpecStore)                                                              *)
(***************************************************************************)
\* the step in which ArchiveAndPersist returns, for a bookmark in the table
AttemptReturns ==
    attempt.pc = "capturing" /\ attempt'.pc = "idle" /\ attempt.b.ID \in DOMAIN bookmarks

\* the columns ArchiveAndPersist does not write
SameBookmark(row1, row2) ==
    row1.url = row2.url /\ row1.title = row2.title /\ row1.created_at = row2.created_at

\* C4: when the capture fails for a bookmark in the table, the attempt
\* writes that row once: status error, the capture's message, the attempt
\* time, no completion time, no final URL and no HTML; it does not call the
\* inliner and returns the capture's error
C4_CaptureFailurePersisted ==
    [][(AttemptReturns /\ ret'.calls[1].res.err # "")
        => LET id == attempt.b.ID
               row == bookmarks'[id]
               rec == GetBookmarkArchive(bookmarks', id)
           IN  /\ DOMAIN bookmarks' = DOMAIN bookmarks
               /\ \A i \in DOMAIN bookmarks \ {id} : bookmarks'[i] = bookmarks[i]
               /\ SameBookmark(row, bookmarks[id])
               /\ row.archive_status = Some(ArchiveStatusError)
               /\ row.archive_error = Some(ret'.calls[1].res.err)
               /\ row.archive_attempted_at = Some(RFC3339(attempt.attemptedAt))
               /\ row.archived_at = NULL
               /\ rec.ArchivedAt = "" /\ rec.ArchivedURL = "" /\ rec.ArchivedHTML = <<>>
               /\ Len(ret'.calls) = 2
               /\ ret'.calls[2] = [fn |-> "SaveArchiveResult", err |-> ""]
               /\ ret'.err = ret'.calls[1].res.err]_vars

\* an attempt has returned the capture's error and left the error record
C4_FailureRecorded ==
    /\ ret.op = "ArchiveAndPersist"
    /\ ret.err = "context deadline exceeded"
    /\ ret.id \in DOMAIN bookmarks
    /\ bookmarks[ret.id].archive_status = Some(ArchiveStatusError)
    /\ bookmarks[ret.id].archive_error = Some("context deadline exceeded")
    /\ bookmarks[ret.id].archived_at = NULL
    /\ Len(ret.calls) = 2

\* C5: when the capture succeeds for a bookmark in the table, the attempt
\* runs the inliner on the captured HTML with the final URL as base and
\* writes the row once: status ok, a completion time not before the attempt
\* time, the final URL, and the inliner's output, or the captured HTML when
\* the inliner returned an error
C5_CaptureSuccessPersisted ==
    [][(AttemptReturns /\ ret'.calls[1].res.err = "")
        => LET id == attempt.b.ID
               row == bookmarks'[id]
               res == ret'.calls[1].res
               inlined == ret'.calls[2].res
           IN  /\ Len(ret'.calls) = 3
               /\ ret'.calls[2].fn = "InlineResources"
               /\ ret'.calls[2].html = res.HTML
               /\ ret'.calls[2].opts.BaseURL = res.FinalURL
               /\ \E web \in ArchiveWebs :
                     inlined = InlineResources(res.HTML, DefaultInlineOptions(res.FinalURL), web)
               /\ ret'.calls[3] = [fn |-> "SaveArchiveResult", err |-> ""]
               /\ DOMAIN bookmarks' = DOMAIN bookmarks
               /\ \A i \in DOMAIN bookmarks \ {id} : bookmarks'[i] = bookmarks[i]
               /\ SameBookmark(row, bookmarks[id])
               /\ row.archive_status = Some(ArchiveStatusOK)
               /\ row.archive_error = Some("")
               /\ row.archive_attempted_at = Some(RFC3339(attempt.attemptedAt))
               /\ row.archived_at # NULL
               /\ ParseRFC3339(row.archived_at[1]) >= ParseRFC3339(row.archive_attempted_at[1])
               /\ row.archived_url = Some(res.FinalURL)
               /\ row.archived_html = Some(IF inlined.err # "" THEN res.HTML ELSE inlined.html)
               /\ ret'.err = ""]_vars

\* an attempt whose inliner returned an error has stored the captured HTML
\* with status ok
C5_UninlinedStored ==
    /\ ret.op = "ArchiveAndPersist"
    /\ ret.err = ""
    /\ ret.id \in DOMAIN bookmarks
    /\ Len(ret.calls) = 3
    /\ ret.calls[2].res.err # ""
    /\ bookmarks[ret.id].archive_status = Some(ArchiveStatusOK)
    /\ bookmarks[ret.id].archived_html = Some(CapturedPage)

\* C6: in every state of the store a bookmark has a completion time
\* (archived_at) exactly when its archive status is ok
C6_CompletionTimeIffOK ==
    \A i \in DOMAIN bookmarks :
        (bookmarks[i].archived_at # NULL) <=> (bookmarks[i].archive_status = Some(ArchiveStatusOK))

\* every result ListBookmarksToArchive may return without limit holds id
ListedToArchive(rows, id) ==
    \A out \in ListBookmarksToArchive(rows, 0) : \E n \in 1..Len(out) : out[n].ID = id

\* the six archive columns of a row are NULL
NoArchiveRecord(row) ==
    /\ row.archive_status = NULL /\ row.archive_error = NULL
    /\ row.archived_url = NULL /\ row.archived_html = NULL
    /\ row.archive_attempted_at = NULL /\ row.archived_at = NULL

\* C7: ClearBookmarkArchive on a bookmark in the table, whatever its record,
\* leaves all six archive columns absent and the bookmark listed by
\* ListBookmarksToArchive; and a bookmark that is listed stays listed while
\* it is in the table until an ok result is saved for it
C7_ClearResetsAndRelists ==
    [][/\ (ret'.op = "ClearBookmarkArchive" /\ ret'.err = "" /\ ret'.id \in DOMAIN bookmarks)
            => /\ ret'.id \in DOMAIN bookmarks'
               /\ NoArchiveRecord(bookmarks'[ret'.id])
               /\ SameBookmark(bookmarks'[ret'.id], bookmarks[ret'.id])
               /\ ListedToArchive(bookmarks', ret'.id)
       /\ \A i \in DOMAIN bookmarks \cap DOMAIN bookmarks' :
            (ListedToArchive(bookmarks, i) /\ ~ListedToArchive(bookmarks', i))
                => /\ ret'.op \in {"SaveArchiveResult", "ArchiveAndPersist"}
                   /\ ret'.id = i
                   /\ ret'.err = ""
                   /\ ret'.emits = <<emit(bookmarks', ArchiveResultSavedEvent(i, ArchiveStatusOK))>>
                   /\ bookmarks'[i].archive_status = Some(ArchiveStatusOK)]_vars

\* a bookmark has been cleared and is listed
C7_ClearedAndListed ==
    /\ ret.op = "ClearBookmarkArchive"
    /\ ret.err = ""
    /\ ret.id \in DOMAIN bookmarks
    /\ NoArchiveRecord(bookmarks[ret.id])
    /\ ListedToArchive(bookmarks, ret.id)

\* the ids of a result of ListBookmarksToArchive
IDsOf(out) == {out[n].ID : n \in 1..Len(out)}

\* C8 as stated: without limit ListBookmarksToArchive returns exactly the
\* bookmarks without an archive record; one with a saved result, ok or
\* error, is not returned
C8_ListsExactlyTheUnrecorded ==
    \A out \in ListBookmarksToArchive(bookmarks, 0) :
        IDsOf(out) = {i \in DOMAIN bookmarks : NoArchiveRecord(bookmarks[i])}

\* C8 amended: without limit ListBookmarksToArchive returns, once each,
\* exactly the bookmarks without a completion time: those never attempted,
\* cleared or queued again, and those whose last saved result is an error;
\* one whose completion time is present is not returned
C8_ListsExactlyTheUncompleted ==
    \A out \in ListBookmarksToArchive(bookmarks, 0) :
        /\ IDsOf(out) = {i \in DOMAIN bookmarks : bookmarks[i].archived_at = NULL}
        /\ Len(out) = Cardinality(IDsOf(out))
        /\ \A n \in 1..Len(out) : out[n] = Bookmark(out[n].ID, bookmarks[out[n].ID])
        /\ \A i \in DOMAIN bookmarks :
              /\ NoArchiveRecord(bookmarks[i]) => i \in IDsOf(out)
              /\ (bookmarks[i].archive_status = Some(ArchiveStatusError) /\ bookmarks[i].archived_at = NULL)
                    => i \in IDsOf(out)
              /\ bookmarks[i].archived_at # NULL => i \notin IDsOf(out)

\* a bookmark with a saved error is listed while one with a saved ok is not
C8_FailedListedArchivedNot ==
    \E i, j \in DOMAIN bookmarks :
        /\ bookmarks[i].archive_status = Some(ArchiveStatusError)
        /\ bookmarks[j].archive_status = Some(ArchiveStatusOK)
        /\ bookmarks[j].archived_at # NULL
        /\ \A out \in ListBookmarksToArchive(bookmarks, 0) : i \in IDsOf(out) /\ j \notin IDsOf(out)

(***************************************************************************)
(* Properties of the event bus (SpecEvents, SpecListeners)                 *)
(***************************************************************************)
\* the kind of event each mutating method emits
KindOf ==
    [AddBookmark |-> "bookmark_created", UpdateBookmark |-> "bookmark_updated",
     DeleteBookmark |-> "bookmark_deleted", SaveArchiveResult |-> "archive_result_saved",
     ClearBookmarkArchive |-> "archive_cleared"]

\* the id of the entity an event carries
EntityOf(event) ==
    IF event.kind \in {"bookmark_created", "bookmark_updated", "bookmark_deleted"}
    THEN event.Bookmark.ID ELSE event.BookmarkID

\* C9: a mutating method that returned without error emitted exactly one
\* event, of its kind, carrying the entity it wrote, and emitted it with
\* its write in the table
C9_OneEventPerSuccessfulMutation ==
    (ret.op \in DOMAIN KindOf /\ ret.err = "")
        => /\ Len(ret.emits) = 1
           /\ ret.emits[1].event.kind = KindOf[ret.op]
           /\ EntityOf(ret.emits[1].event) = ret.id
           /\ (ret.op = "DeleteBookmark") <=> (ret.id \notin DOMAIN ret.emits[1].committed)

\* C10: emit calls the listeners registered for the event's kind, each
\* once, in the order of their registration, before the method returns, and
\* calls no listener of another kind
C10_ListenersCalledInRegistrationOrder ==
    [][ret' # ret
        => \A n \in 1..Len(ret'.emits) :
              LET called == ret'.emits[n].called
                  kind == ret'.emits[n].event.kind
              IN  /\ called = eventListeners[kind]
                  /\ \A i, j \in 1..Len(called) : i < j => called[i] < called[j]
                  /\ \A k \in EventKinds \ {kind} :
                        \A i \in 1..Len(eventListeners[k]) :
                            \A j \in 1..Len(called) : called[j] # eventListeners[k][i]]_vars

\* an event went to the first and the third listener registered, the second
\* being one of another kind
C10_TwoOfThreeCalled ==
    /\ Len(ret.emits) = 1
    /\ ret.emits[1].called = <<1, 3>>
    /\ \E k \in EventKinds \ {ret.emits[1].event.kind} : eventListeners[k] = <<2>>

\* C11: when a listener of the event's kind returns an error, emit logs it
\* and still calls every listener registered after it; the method returns
\* without error and its write is in the table when it returns
C11_ListenerErrorIsLoggedOnly ==
    [][(ret' # ret /\ ret'.op \in DOMAIN KindOf /\ ret'.emits # <<>>
           /\ \E i \in 1..Len(eventListeners[KindOf[ret'.op]]) :
                  ListenerFails(eventListeners[KindOf[ret'.op]][i]))
        => /\ ret'.err = ""
           /\ Len(ret'.emits) = 1
           /\ ret'.emits[1].called = eventListeners[KindOf[ret'.op]]
           /\ ret'.emits[1].logged = logErrors(eventListeners[KindOf[ret'.op]], 1)
           /\ bookmarks' = ret'.emits[1].committed
           /\ (ret'.op = "DeleteBookmark") <=> (ret'.id \notin DOMAIN bookmarks')]_vars

\* AddBookmark returned a new id without error after its first listener
\* failed and its second ran
C11_SecondCalledAfterFailure ==
    /\ ret.op = "AddBookmark" /\ ret.err = "" /\ ret.id \in DOMAIN bookmarks
    /\ Len(ret.emits) = 1
    /\ Len(ret.emits[1].called) >= 2
    /\ ListenerFails(ret.emits[1].called[1])
    /\ ~ListenerFails(ret.emits[1].called[2])
    /\ ret.emits[1].logged = <<ret.emits[1].called[1]>>

(***************************************************************************)
(* Properties of the serve command (SpecServe, SpecStartup)                *)
(***************************************************************************)
\* C12: whatever the listeners, the startup goroutine and the workers do,
\* the queue never holds more than ten bookmarks for each worker
C12_QueueWithinCapacity == Len(workQueue) <= numWorkers * 10

\* the queue of one worker holds ten bookmarks and a goroutine waits to
\* send an eleventh
C12_QueueFullSenderBlocked == numWorkers = 1 /\ Len(workQueue) = 10 /\ sendq # <<>>

\* the step in which the select of queueBookmark takes its timeout
HandlerGivesUp ==
    /\ Len(sendq') < Len(sendq)
    /\ workers' = workers
    /\ startup' = startup

\* C13: when a handler's send is given up after the grace period, nothing
\* is queued, the table is left as it is, the method returns without
\* error, and the bookmark has no archive record and is listed by
\* ListBookmarksToArchive
C13_DroppedJobStillListed ==
    [][HandlerGivesUp
        => /\ workQueue' = workQueue
           /\ bookmarks' = bookmarks
           /\ ret'.op \in {"AddBookmark", "ClearBookmarkArchive"}
           /\ ret'.err = ""
           /\ ret'.id \in DOMAIN bookmarks'
           /\ NoArchiveRecord(bookmarks'[ret'.id])
           /\ ListedToArchive(bookmarks', ret'.id)]_vars

\* C14: when the startup goroutine has ended, each bookmark of the list it
\* read had a send of its own, gone through or given up
C14_EveryListedBookmarkAttempted ==
    startup.pc = "done" => startup.i >= Len(startup.bookmarks)

\* C14 as the code has it: the startup goroutine sends the bookmarks of
\* its list in list order and ends at the first send that is given up;
\* every bookmark before that one was put into the queue, the bookmarks
\* after it had no send, and with no send given up all were queued
C14_ListedQueuedUntilFirstTimeout ==
    /\ startup.pc \in {"queuing", "blocked", "done"} /\ startup.bookmarks # <<>>
           => /\ startup.i \in 1..(Len(startup.bookmarks) + 1)
              /\ startup.queued = startup.i - 1
    /\ startup.pc \in {"queuing", "blocked"} => startup.i <= Len(startup.bookmarks)
    /\ startup.pc = "blocked"
           => \E k \in 1..Len(sendq) : /\ sendq[k].from = "startup"
                                       /\ sendq[k].b = startup.bookmarks[startup.i]

\* the startup goroutine has ended after the send of a bookmark was given
\* up, and a later bookmark of its list was never sent
C14_StoppedBeforeEndOfList ==
    /\ startup.pc = "done"
    /\ startup.i < Len(startup.bookmarks)
    /\ startup.queued = startup.i - 1

\* the bookmarks on their way: buffered, held by a blocked sender, or being
\* archived by a worker
InFlight ==
    Len(workQueue) + Len(sendq) + Cardinality({w \in DOMAIN workers : workers[w].pc = "archiving"})

\* the step in which a listener sends, or starts to wait with, the bookmark
\* of the event its method emitted
EventEnqueues ==
    \E op \in {"AddBookmark", "ClearBookmarkArchive"} :
        \/ /\ ret'.op = op /\ ret'.err = "" /\ Len(ret'.emits) = 1
           /\ ret'.emits[1].event.kind = KindOf[op]
           /\ workQueue' = Append(workQueue, GetBookmark(bookmarks', ret'.id).b)
           /\ sendq' = sendq
        \/ /\ Len(sendq') = Len(sendq) + 1
           /\ sendq'[Len(sendq')].from = op
           /\ Len(sendq'[Len(sendq')].r.emits) = 1
           /\ workQueue' = workQueue

\* the step in which the startup goroutine sends, or starts to wait with,
\* the next bookmark of its list
StartupEnqueues ==
    /\ startup.pc = "queuing"
    /\ \/ /\ workQueue' = Append(workQueue, startup.bookmarks[startup.i])
          /\ startup'.i = startup.i + 1
          /\ sendq' = sendq
       \/ /\ Len(sendq') = Len(sendq) + 1
          /\ sendq'[Len(sendq')].from = "startup"
          /\ sendq'[Len(sendq')].b = startup.bookmarks[startup.i]
          /\ startup'.pc = "blocked"
          /\ workQueue' = workQueue

\* the calls of ArchiveBookmark among the calls an attempt made
Captures(calls) == {n \in 1..Len(calls) : calls[n].fn = "ArchiveBookmark"}

\* C15: a worker that receives a bookmark takes it out of the queue, makes
\* one attempt on it and puts nothing back, whatever the outcome; a
\* bookmark comes into the queue only by the listener of a created or a
\* cleared event or by the startup goroutine
C15_NoRetryFromMemory ==
    [][/\ \A w \in DOMAIN workers :
            /\ (workers[w].pc = "idle" /\ workers'[w].pc = "archiving")
                  => workers'[w].b = Head(workQueue) /\ InFlight' = InFlight
            /\ (workers[w].pc = "archiving" /\ workers'[w].pc = "idle")
                  => /\ ret'.op = "ArchiveAndPersist"
                     /\ ret'.id = workers[w].b.ID
                     /\ Cardinality(Captures(ret'.calls)) = 1
                     /\ workQueue' = workQueue
                     /\ sendq' = sendq
                     /\ InFlight' = InFlight - 1
       /\ InFlight' > InFlight
            => /\ InFlight' = InFlight + 1
               /\ workers' = workers
               /\ EventEnqueues \/ StartupEnqueues]_vars

\* a worker's attempt failed, and nothing is queued, waiting or being
\* archived afterwards
C15_FailedJobGone ==
    /\ numWorkers >= 1
    /\ ret.op = "ArchiveAndPersist" /\ ret.err # ""
    /\ ret.id \in DOMAIN bookmarks
    /\ bookmarks[ret.id].archive_status = Some(ArchiveStatusError)
    /\ InFlight = 0

\* C16: when a worker's attempt ends with an error, that worker is back at
\* the channel, every other worker is where it was with the bookmark it
\* has, nothing queued is lost, and no row of another bookmark is changed
C16_FailedJobAffectsOnlyItself ==
    [][\A w \in DOMAIN workers :
          (workers[w].pc = "archiving" /\ workers'[w].pc = "idle" /\ ret'.err # "")
              => /\ \A v \in DOMAIN workers \ {w} : workers'[v] = workers[v]
                 /\ workQueue' = workQueue
                 /\ sendq' = sendq
                 /\ startup' = startup
                 /\ DOMAIN bookmarks' = DOMAIN bookmarks
                 /\ \A i \in DOMAIN bookmarks \ {workers[w].b.ID} : bookmarks'[i] = bookmarks[i]]_vars

\* one worker's attempt has failed while the other worker is archiving
\* another bookmark, whose row has no record yet
C16_SiblingStillArchiving ==
    /\ numWorkers = 2
    /\ ret.op = "ArchiveAndPersist" /\ ret.err # ""
    /\ \E w, v \in DOMAIN workers :
          /\ workers[w].pc = "idle"
          /\ workers[v].pc = "archiving"
          /\ workers[v].b.ID # ret.id
          /\ workers[v].b.ID \in DOMAIN bookmarks
          /\ NoArchiveRecord(bookmarks[workers[v].b.ID])

\* C17: no step of the archiving subsystem (a call of SaveArchiveResult,
\* ClearBookmarkArchive or QueueBookmarkForArchive, a send to or a receive
\* from the queue, a send given up, the end of an archive attempt) removes
\* a row or changes the URL, the title or the creation time of the row
\* with a given id
C17_ArchivingKeepsBookmarkFields ==
    [][ret'.op # "AddBookmark" \/ ret' = ret
          => /\ DOMAIN bookmarks' = DOMAIN bookmarks
             /\ \A id \in DOMAIN bookmarks :
                   /\ SameBookmark(bookmarks[id], bookmarks'[id])
                   /\ GetBookmark(bookmarks', id).b = GetBookmark(bookmarks, id).b]_vars

\* a worker's attempt has saved a page under another URL than the
\* bookmark's, and the bookmark reads as it was created
C17_ArchivedUnderFinalURL ==
    /\ ret.op = "ArchiveAndPersist" /\ ret.err = ""
    /\ ret.id \in DOMAIN bookmarks
    /\ bookmarks[ret.id].archive_status = Some(ArchiveStatusOK)
    /\ bookmarks[ret.id].archived_url # NULL
    /\ bookmarks[ret.id].archived_url # Some(bookmarks[ret.id].url)
    /\ bookmarks[ret.id].url \in AddURLs
    /\ bookmarks[ret.id].title \in Titles

(***************************************************************************)
(* Properties of the inliner (SpecInline)                                  *)
(***************************************************************************)
\* the attributes of a tag that InlineResources fetches a resource for
ReferenceAttrs(e) ==
    IF e.tag = "link" /\ HasAttr(e, "rel") /\ e.attrs.rel = "stylesheet" /\ HasAttr(e, "href") THEN {"href"}
    ELSE IF e.tag \in {"script", "img"} /\ HasAttr(e, "src") THEN {"src"}
    ELSE {}

\* the reference ref of a document at base names a resource, and the
\* fetch of it fails in the network web
FetchFails(base, ref, web) ==
    \E u \in {resolveURL(urlParse(base), ref)} :
        u # "" /\ fetchURL(u, MaxResourceSize, web).err # ""

\* the url references of a stylesheet at base whose fetch fails
FailingReferences(css, base, web) ==
    {r \in {urlReferences(css)[n] : n \in 1..Len(urlReferences(css))} :
        ~HasPrefix(r.urlContent, "data:") /\ FetchFails(base, r.urlContent, web)}

\* C18: InlineResources returns an error only when the base URL does not
\* parse.  When it returns a document, every link, script or img whose
\* resource could not be fetched is in it with its href or src as it was,
\* and every url reference of a style attribute or of a fetched stylesheet
\* whose resource could not be fetched is in it as it was written
C18_FetchFailureLeavesReference ==
    ret.op = "InlineResources" =>
        \A c \in {ret.calls[1]} :
            /\ c.res.err # "" => urlParse(c.opts.BaseURL).err
            /\ c.res.err = "" =>
                  \A i \in 1..Len(c.html) :
                      /\ \A a \in ReferenceAttrs(c.html[i]) :
                            FetchFails(c.opts.BaseURL, c.html[i].attrs[a], c.web)
                                => \E j \in 1..Len(c.res.html) :
                                        /\ c.res.html[j].tag = c.html[i].tag
                                        /\ HasAttr(c.res.html[j], a)
                                        /\ c.res.html[j].attrs[a] = c.html[i].attrs[a]
                      /\ HasAttr(c.html[i], "style") =>
                            \A r \in FailingReferences(c.html[i].attrs.style, c.opts.BaseURL, c.web) :
                                \E j \in 1..Len(c.res.html) :
                                    /\ c.res.html[j].tag = c.html[i].tag
                                    /\ HasAttr(c.res.html[j], "style")
                                    /\ Contains(c.res.html[j].attrs.style, r.original)
                      /\ \A a \in ReferenceAttrs(c.html[i]) :
                            (c.html[i].tag = "link" /\ ~FetchFails(c.opts.BaseURL, c.html[i].attrs[a], c.web))
                                => \A cssURL \in {resolveURL(urlParse(c.opts.BaseURL), c.html[i].attrs[a])} :
                                     \A r \in FailingReferences(fetchResource(cssURL, MaxResourceSize, c.web).content,
                                                                 cssURL, c.web) :
                                        \E j \in 1..Len(c.res.html) :
                                            /\ c.res.html[j].tag = "style"
                                            /\ Contains(c.res.html[j].text, r.original)

\* a document was inlined in a network without images: its stylesheet was
\* fetched and its image was not, and the image has its src
C18_ImageMissingStylesheetInlined ==
    /\ ret.op = "InlineResources" /\ ret.err = ""
    /\ ret.calls[1].web = "noimages"
    /\ \E i \in 1..Len(ret.calls[1].html) : ret.calls[1].html[i].tag = "img"
                                              /\ ret.calls[1].html[i].attrs.src = "logo.gif"
    /\ \E j \in 1..Len(ret.calls[1].res.html) :
          /\ ret.calls[1].res.html[j].tag = "img"
          /\ HasAttr(ret.calls[1].res.html[j], "src")
          /\ ret.calls[1].res.html[j].attrs.src = "logo.gif"
    /\ \E j \in 1..Len(ret.calls[1].res.html) :
          /\ ret.calls[1].res.html[j].tag = "style"
          /\ Contains(ret.calls[1].res.html[j].text, "url(bg.gif)")

\* a url reference stays as it is: it is a data URI, it does not resolve
\* against the base, or its fetch fails
StaysAsWritten(r, base, web) ==
    \/ HasPrefix(r.urlContent, "data:")
    \/ urlParse(base).err
    \/ resolveURL(urlParse(base), r.urlContent) = ""
    \/ FetchFails(base, r.urlContent, web)

\* the length of the text up to the end of the last url reference
RECURSIVE ScannedLen(_, _)
ScannedLen(refs, k) ==
    IF k > Len(refs) THEN 0 ELSE Len(refs[k].before) + Len(refs[k].original) + ScannedLen(refs, k + 1)

\* out is the text of a stylesheet from its k-th url reference on: the text
\* before each reference, the reference as written where it stays, a
\* url(data:...) where it does not, and the text after the last reference
RECURSIVE CopiedFrom(_, _, _, _, _, _)
CopiedFrom(out, refs, k, tail, base, web) ==
    IF k > Len(refs) THEN out = tail
    ELSE /\ HasPrefix(out, refs[k].before)
         /\ \E rest \in {From(out, Len(refs[k].before))} :
               IF StaysAsWritten(refs[k], base, web)
               THEN /\ HasPrefix(rest, refs[k].original)
                    /\ CopiedFrom(From(rest, Len(refs[k].original)), refs, k + 1, tail, base, web)
               ELSE /\ HasPrefix(rest, "url(data:")
                    /\ Index(rest, ")") > 0
                    /\ CopiedFrom(From(rest, Index(rest, ")") + 1), refs, k + 1, tail, base, web)

\* C19: inlineCSSURLs returns a string; every url reference that is a data
\* URI, does not resolve or could not be fetched is in it as it was written,
\* and the text around the references is in it unchanged and in order
C19_FailedReferencesAndTextCopied ==
    ret.op = "inlineCSSURLs" =>
        \A c \in {ret.calls[1]} :
            /\ c.out \in STRING
            /\ ret.err = ""
            /\ CopiedFrom(c.out, urlReferences(c.css), 1,
                          From(c.css, ScannedLen(urlReferences(c.css), 1)), c.baseURLStr, c.web)

\* a stylesheet with a reference that was fetched and a reference that was
\* not, with text after them, has been rewritten
C19_OneFetchedOneKept ==
    /\ ret.op = "inlineCSSURLs"
    /\ ret.calls[1].css = "url(bg.gif)url(http://localhost/x.gif)"
    /\ ret.calls[1].web = "up"
    /\ HasPrefix(ret.calls[1].out, "url(data:image/gif;base64,")
    /\ HasSuffix(ret.calls[1].out, ")url(http://localhost/x.gif)")

\* the occurrences of sub in s from index i on
RECURSIVE Count(_, _, _)
Count(s, sub, i) == IF IndexFrom(s, sub, i) = -1 THEN 0 ELSE 1 + Count(s, sub, IndexFrom(s, sub, i) + Len(sub))

\* C20: for a stylesheet whose url references are all data URIs nothing is
\* fetched and the text comes back as it was, also when it is rewritten a
\* second time; for a stylesheet with N url references that all resolve
\* and are fetched, the result has N url(data:...) and none of the
\* references as they were written
C20_DataOnlyUnchangedAndAllReplaced ==
    ret.op = "inlineCSSURLs" =>
        \A c \in {ret.calls[1]} :
            /\ (\A n \in 1..Len(urlReferences(c.css)) : HasPrefix(urlReferences(c.css)[n].urlContent, "data:"))
                  => /\ c.fetched = <<>>
                     /\ c.out = c.css
                     /\ inlineCSSURLs(c.out, c.baseURLStr, DefaultInlineOptions(c.baseURLStr), c.web) = c.out
            /\ (\A n \in 1..Len(urlReferences(c.css)) :
                     ~StaysAsWritten(urlReferences(c.css)[n], c.baseURLStr, c.web))
                  => /\ Count(c.out, "url(data:", 0) = Len(urlReferences(c.css))
                     /\ Len(c.fetched) = Len(urlReferences(c.css))
                     /\ \A n \in 1..Len(urlReferences(c.css)) :
                           ~Contains(c.out, urlReferences(c.css)[n].original)

\* a stylesheet with two references that were fetched has been rewritten
C20_TwoReferencesReplaced ==
    /\ ret.op = "inlineCSSURLs"
    /\ Len(urlReferences(ret.calls[1].css)) = 2
    /\ Len(ret.calls[1].fetched) = 2
    /\ Count(ret.calls[1].out, "url(data:", 0) = 2
    /\ Count(ret.calls[1].css, "url(data:", 0) = 0

(***************************************************************************)
(* Properties of the options of the inliner (SpecOptions)                  *)
(***************************************************************************)
\* the switch of InlineOptions that the pass over the tag e is under; the
\* pass over style attributes has none
SwitchOf(e) ==
    IF e.tag = "link" THEN "InlineCSS" ELSE IF e.tag = "script" THEN "InlineJS"
    ELSE IF e.tag = "img" THEN "InlineImages" ELSE ""

\* the tag e of the document is in the result as it was
Untouched(c, e) == \E j \in 1..Len(c.res.html) : c.res.html[j] = e

\* C21 as stated: all four passes can be switched off, so with every
\* switch of the options off each tag of the document, a tag with a style
\* attribute included, is in the result as it was
C21_EveryPassCanBeDisabled ==
    (ret.op = "InlineResources" /\ ret.err = "")
        => \A c \in {ret.calls[1]} :
             (~c.opts.InlineCSS /\ ~c.opts.InlineJS /\ ~c.opts.InlineImages)
                 => \A i \in 1..Len(c.html) : Untouched(c, c.html[i])

\* C21 as the code has it: the passes over stylesheet links, scripts and
\* images each have a switch; with its switch off a tag is in the result
\* as it was (an img with its src and its srcset), with its switch on a
\* tag whose resource is fetched is rewritten, whatever the other switches
\* say; the pass over style attributes has no switch and rewrites a url
\* reference it can fetch under every setting
C21_ThreePassesCanBeDisabled ==
    (ret.op = "InlineResources" /\ ret.err = "")
        => \A c \in {ret.calls[1]} :
             \A i \in 1..Len(c.html) :
                 /\ (SwitchOf(c.html[i]) # "" /\ ~c.opts[SwitchOf(c.html[i])])
                        => Untouched(c, c.html[i])
                 /\ (SwitchOf(c.html[i]) # "" /\ c.opts[SwitchOf(c.html[i])])
                        => \A a \in ReferenceAttrs(c.html[i]) :
                             (/\ ~HasPrefix(c.html[i].attrs[a], "data:")
                              /\ ~FetchFails(c.opts.BaseURL, c.html[i].attrs[a], c.web))
                                 => ~Untouched(c, c.html[i])
                 /\ (HasAttr(c.html[i], "style")
                      /\ FailingReferences(c.html[i].attrs.style, c.opts.BaseURL, c.web) = {})
                        => ~Untouched(c, c.html[i])

\* with the image switch off and the others on, an img is in the result
\* with its src and srcset while a style attribute got its data URI
C21_ImagesOffStyleRewritten ==
    /\ ret.op = "InlineResources" /\ ret.err = ""
    /\ ~ret.calls[1].opts.InlineImages /\ ret.calls[1].opts.InlineCSS /\ ret.calls[1].opts.InlineJS
    /\ \E j \in 1..Len(ret.calls[1].res.html) :
          ret.calls[1].res.html[j] = El("img", [src |-> "logo.gif", srcset |-> "logo2x.gif 2x"], "")
    /\ \E j \in 1..Len(ret.calls[1].res.html) :
          /\ HasAttr(ret.calls[1].res.html[j], "style")
          /\ HasPrefix(ret.calls[1].res.html[j].attrs.style, "background:url(data:image/gif;base64,")

(***************************************************************************)
(* Properties of the base element (SpecInline)                             *)
(***************************************************************************)
\* the positions of the <base> elements of a document
Bases(doc) == {i \in 1..Len(doc) : doc[i].tag = "base"}

Answered(resp) == fetch.pc = "sending" /\ fetch' = clientRoundTrip(fetch, resp)

\* the content type of an answer: its header, or what the bytes read look
\* like when it has none
ContentTypeOf(resp, read) == IF resp.contentType = "" THEN DetectContentType(read) ELSE resp.contentType

\* the first n bytes of a body
FirstBytes(body, n) == IF Len(body) <= n THEN body ELSE SubSeq(body, 1, n)

\* C23: the data URI of a fetch that succeeded is data:, the content type
\* of the answer cut before its first ';' and holding no ';', then
\* ;base64, and the base64 encoding of the bytes read
C23_DataURIForm ==
    [][\A resp \in ServerResponses :
          (Answered(resp) /\ fetch'.pc = "done" /\ fetch'.err = "")
              => /\ ~Contains(TrimSpace(CutBefore(ContentTypeOf(resp, fetch'.data), ";")), ";")
                 /\ dataURIOf(fetch') = "data:" \o TrimSpace(CutBefore(ContentTypeOf(resp, fetch'.data), ";"))
                                       \o ";base64," \o EncodeToString(fetch'.data)]_vars

C25_StatusErrorIffNot2xx ==
    [][\A resp \in ServerResponses :
          (Answered(resp) /\ resp.status # 0 /\ fetch'.pc = "done" /\ fetch'.err # "stopped after 10 redirects")
              => /\ resp.status \notin 200..299 => fetch'.err = "HTTP " \o Itoa(resp.status)
                 /\ resp.status \in 200..299 => ~HasPrefix(fetch'.err, "HTTP ")]_vars

\* C25 as the code has it: an answer that is not followed as a redirect
\* gives the error HTTP <status> when its status is not 200, another 2xx
\* status included, and no error when its status is 200
C25_StatusErrorIffNot200 ==
    [][\A resp \in ServerResponses :
          (Answered(resp) /\ resp.status # 0 /\ fetch'.pc = "done" /\ fetch'.err # "stopped after 10 redirects")
              => /\ resp.status # 200 => fetch'.err = "HTTP " \o Itoa(resp.status)
                 /\ resp.status = 200 => fetch'.err = ""]_vars

\* a fetch has ended with the status error of a 204
C25_NoContentIsAnError ==
    /\ fetch.pc = "done"
    /\ fetch.err = "HTTP 204"
    /\ fetch.requests # {}

(***************************************************************************)
(* Properties of failing calls and of stored URLs (SpecEvents)             *)
(***************************************************************************)
\* the methods that return 'bookmark not found' for an id without a row
NotFoundOps == {"SaveArchiveResult", "ClearBookmarkArchive", "UpdateBookmark", "DeleteBookmark"}

\* a URL with scheme http or https and a host
AcceptableURL(urlStr) ==
    /\ urlStr # ""
    /\ ~urlParse(urlStr).err
    /\ urlParse(urlStr).Scheme \in {"http", "https"}
    /\ urlParse(urlStr).Host # ""

\* C26: a call that returns an error leaves the table as it was and emits
\* no event; SaveArchiveResult, ClearBookmarkArchive, UpdateBookmark and
\* DeleteBookmark return 'bookmark not found' exactly for an id that has
\* no row when their statement runs (an UpdateBookmark whose UPDATE found
\* the row returns later, and without an error), AddBookmark returns
\* 'invalid URL', and a row that AddBookmark inserts has a URL with scheme
\* http or https and a host
C26_FailedCallChangesNothing ==
    [][ret' # ret =>
          /\ ret'.err # "" => /\ bookmarks' = bookmarks
                              /\ ret'.emits = <<>>
          /\ (ret'.op \in NotFoundOps /\ ret'.err # "")
                => ret'.err = NotFound(ret'.id) /\ ret'.id \notin DOMAIN bookmarks
          /\ (/\ ret'.op \in NotFoundOps /\ ret'.id \notin DOMAIN bookmarks
              /\ inProgress'.UpdateBookmark = inProgress.UpdateBookmark)
                => ret'.err = NotFound(ret'.id)
          /\ (ret'.op = "AddBookmark" /\ ret'.err # "")
                => HasPrefix(ret'.err, "invalid URL") /\ ret'.id = 0
          /\ (ret'.op = "AddBookmark" /\ ret'.err = "")
                => /\ ret'.id \notin DOMAIN bookmarks
                   /\ DOMAIN bookmarks' = DOMAIN bookmarks \cup {ret'.id}
                   /\ AcceptableURL(bookmarks'[ret'.id].url)]_vars

\* AddBookmark has returned 'missing host' with a row in the table
C26_AddWithoutHostRefused ==
    /\ ret.op = "AddBookmark"
    /\ ret.err = "invalid URL: missing host"
    /\ ret.emits = <<>>
    /\ DOMAIN bookmarks # {}

\* C29: every row of the table has a URL that ValidateBookmarkURL accepts
C29_StoredURLsAreValid ==
    \A id \in DOMAIN bookmarks : ValidateBookmarkURL(bookmarks[id].url) = ""

(***************************************************************************)
(* Properties of the jobs of one bookmark (SpecServe)                      *)
(***************************************************************************)
\* the jobs for the bookmark id: buffered in the channel, held by a
\* blocked sender, or being archived by a worker
JobsFor(id) ==
    Cardinality({n \in 1..Len(workQueue) : workQueue[n].ID = id})
    + Cardinality({n \in 1..Len(sendq) : sendq[n].b.ID = id})
    + Cardinality({w \in DOMAIN workers : workers[w].pc = "archiving" /\ workers[w].b.ID = id})

\* C27: at no time are there two jobs for one bookmark, queued or being
\* archived
C27_OneJobPerBookmark == \A id \in IDs : JobsFor(id) <= 1

(***************************************************************************)
(* Progress of the jobs (SpecStartupFair)                                  *)
(***************************************************************************)
\* C28: with a worker running, every bookmark in the queue is in the end
\* the bookmark of an attempt that a worker finished, and its row then
\* holds a saved result with status ok or error
C28_QueuedJobEndsWithRecord ==
    \A id \in IDs :
        (numWorkers >= 1 /\ \E n \in 1..Len(workQueue) : workQueue[n].ID = id)
            ~> (/\ ret.op = "ArchiveAndPersist" /\ ret.id = id
                /\ id \in DOMAIN bookmarks
                /\ bookmarks[id].archive_status \in {Some(ArchiveStatusOK), Some(ArchiveStatusError)}
                /\ bookmarks[id].archive_attempted_at # NULL)

\* the startup pass queued two bookmarks, and the workers have finished
\* with everything: the queue is empty and each row has a result
C28_AllJobsDone ==
    /\ numWorkers >= 1
    /\ startup.pc = "done" /\ startup.queued = 2
    /\ workQueue = <<>>
    /\ \A w \in DOMAIN workers : workers[w].pc = "idle"
    /\ ret.op = "ArchiveAndPersist"
    /\ \A id \in DOMAIN bookmarks : bookmarks[id].archive_status # NULL

(***************************************************************************)
(* The end of the url scan (SpecScan)                                      *)
(***************************************************************************)
Scanning == scan.pc = "for"

Scanned == scan.pc = "return"

\* an iteration of the scan: it appends to result, what remains is still
\* an end of the stylesheet as it was given, an iteration that goes round
\* again has left fewer url( in a shorter text, a url( with no ) after it
\* breaks the loop with all that remained appended as it was, and the
\* loop ends with the text inlineCSSURLs returns
IterationProgress ==
    Scanning =>
        \A c \in {ret.calls[1]}, d \in {ret'.calls[1]} :
            /\ scan'.pc \in {"for", "return"}
            /\ HasPrefix(d.result, c.result)
            /\ HasSuffix(c.css, d.remaining)
            /\ scan'.pc = "for" =>
                   /\ Len(d.remaining) < Len(c.remaining)
                   /\ Count(d.remaining, "url(", 0) < Count(c.remaining, "url(", 0)
            /\ (/\ Index(c.remaining, "url(") # -1
                /\ Index(From(c.remaining, Index(c.remaining, "url(") + 4), ")") = -1) =>
                   /\ scan'.pc = "return"
                   /\ d.result = c.result \o c.remaining
            /\ scan'.pc = "return" =>
                   d.result = inlineCSSURLs(c.css, c.baseURLStr, DefaultInlineOptions(c.baseURLStr), c.web)

\* C30: the url scan of inlineCSSURLs ends on every stylesheet: every
\* iteration that does not end it takes at least one url( off the text
\* that remains, the text that remains is always an end of the input and
\* never what was written for a reference, and a url( that is not closed
\* ends the scan with the rest of the text copied as it was
C30_ScanEnds == [][IterationProgress]_vars /\ (Scanning ~> Scanned)

\* a scan of two iterations is over: the first wrote a data URI for its
\* reference, the second met a url( that is not closed and copied it
C30_EndedAtUnclosedURL ==
    /\ Scanned
    /\ scan.n = 2
    /\ ret.calls[1].css = "url(bg.gif)url(x.gif"
    /\ ret.calls[1].web = "up"
    /\ HasPrefix(ret.calls[1].result, "url(data:image/gif;base64,")
    /\ HasSuffix(ret.calls[1].result, ")url(x.gif")

====
